---- MODULE Spec2Model ----
(***************************************************************************)
(* The sshx relay: the session engine, the host-agent (CLI) channel of     *)
(* handle_cli_socket and the frontend channel of handle_socket.            *)
(***************************************************************************)
EXTENDS Integers, Sequences, FiniteSets, TLC

(***************************************************************************)
(* Bounds of the model.                                                    *)
(***************************************************************************)
MaxTotal == 3       \* cap on the bytes stored by the relay, all shells together
MaxCliSent == 3     \* server updates written to one host-agent connection
MaxQueue == 2       \* capacity of the backend queue in the model
MaxWsSent == 4      \* frames written to one frontend connection
BroadcastCap == 2   \* capacity of the broadcast bus in the model
BatchChunks == 2    \* chunks packed into one subscription batch
BatchBytes == 3     \* soft byte budget of one subscription batch
ChunksCap == 1      \* capacity of the pump-to-sender channel
TxCap == 16         \* capacity of the streaming task's channel

Names == {"n1", "n2"}           \* session names rand_alphanumeric can draw
CliConns == {"k1", "k2"}        \* host-agent connections
FirstCli == {"k1"}              \* the host agent of the one-agent scenarios
WsConns == {"c1", "c2"}         \* frontend connections
Uids == {1, 2, 3}               \* the uids the counter may issue
Sids == {1, 2}                  \* the sids the counter may issue
NoSession == "none"
AllNames == Names \cup {"n3"}    \* with the name only the dashboard scenarios open
DashKeys == {"d1", "d2"}        \* dashboard keys
ServerSecret == "secret"

DefaultRows == 24
DefaultCols == 80

\* The byte blobs a Data message carries, and the seqs: up to one past the cap.
DataSet == {<<>>, <<0>>, <<1>>, <<0, 1>>}
Seqs == 0..(MaxTotal + 1)

RECURSIVE SumLen(_)
SumLen(cs) == IF cs = <<>> THEN 0 ELSE Len(Head(cs).data) + SumLen(Tail(cs))

RECURSIVE Flatten(_)
Flatten(cs) == IF cs = <<>> THEN <<>> ELSE Head(cs).data \o Flatten(Tail(cs))

(***************************************************************************)
(* Tokens: HMAC(server_secret, name) in standard base64.                   *)
(***************************************************************************)
Hmac(key, msg) == [key |-> key, msg |-> msg]
Base64Encode(bytes) == [b64 |-> TRUE, bytes |-> bytes]
Base64Decode(token) == IF token.b64 THEN [ok |-> TRUE, bytes |-> token.bytes]
                       ELSE [ok |-> FALSE, bytes |-> token.bytes]
Tokens == {[b64 |-> b, bytes |-> Hmac(k, n)] :
              b \in BOOLEAN, k \in {ServerSecret, "other"}, n \in Names}

\* Faulty variant of validate_token: the MAC is verified without the name.
validate_token_anyname(name, token) ==
    LET dec == Base64Decode(token)
    IN  dec.ok /\ dec.bytes.key = ServerSecret

validate_token(name, token) ==
    LET dec == Base64Decode(token)
    IN  dec.ok /\ dec.bytes = Hmac(ServerSecret, name)

(***************************************************************************)
(* State.                                                                  *)
(***************************************************************************)
VARIABLES
    sessions,       \* the session map: the names that are in it
    metadata,       \* per session: encrypted_zeros, write_password_hash
    shells,         \* per session, per sid: the shell record
    users,          \* per session, per uid: the user record (the roster)
    next_sid,       \* per session: the sid counter
    next_uid,       \* per session: the uid counter
    terminated,     \* per session: the one-shot flag
    update_queue,   \* per session: the bounded queue feeding the backend
    uid_log,        \* per session: the uids next_uid has returned, in order
    sid_log,        \* per session: the sids next_sid has returned, in order
    last_ingest,    \* the last TerminalData handled: its case, and a tick that flips
    cli_pc,         \* per host-agent connection: off, idle, open, closed
    active_session, \* per host-agent connection: the attached session
    cli_resp,       \* per host-agent connection: the last response to a request
    cli_sent,       \* per host-agent connection: server updates written to the socket
    cli_rx,         \* per host-agent connection: the channel from its streaming task
    stream_task,    \* per host-agent connection: the session its streaming task serves
    opening,        \* per host-agent connection: the OpenSession between lookup and insert
    ws_pc,          \* per frontend connection: idle, greeted, authed, running, await_queue, closed
    ws_session,     \* per frontend connection: the session it connected to
    ws_uid,         \* per frontend connection: the uid of its Hello
    ws_sent,        \* per frontend connection: frames written to the socket
    ws_pending,     \* per frontend connection: the message awaiting queue capacity
    subscribed,     \* per frontend connection: the sids it has subscribed
    chunks_rx,      \* per frontend connection: the channel from its pumps
    pump,           \* per frontend connection, per sid: the chunk pump task
    bcast,          \* per frontend connection: its broadcast receiver
    client_in,      \* per proxied connection: what socket.recv() has returned, in order
    upstream_in,    \* per proxied connection: what upstream.next() has returned, in order
    upstream_sent,  \* per proxied connection: frames written to the upstream socket
    dashboards,     \* DASHBOARDS: per key, the dashboard or its absence
    session_metadata, \* SESSION_METADATA: per session name, what register stored
    dash_resp,      \* the last answer of a dashboard handler
    cleanup_passes, \* the reaper task: the passes it has made
    now,            \* the clock, in units of twelve hours
    last_accessed,  \* per session: the instant of its most recent activity
    pending_requests, \* the host agent's transport: the ids whose sender is in the map
    next_request_id, \* the transport's request counter
    call,           \* the send_request call: where it stands and what it returned
    tr_out,         \* frames the transport wrote that the peer has not read yet
    tr_in,          \* frames on their way to the transport's reader task
    server_rx,      \* the updates the reader task routed to the stream
    reader,         \* the reader task: "running" or "exited"
    conn,           \* connect_with_fallback: where it stands, what it tried and returned
    ESCAPE_STATE,   \* the terminal client's escape tracking: the static ESCAPE_STATE
    stdin,          \* the bytes the session loop has read from stdin, in order
    session_loop,   \* the session loop: "running" or the reason it was left
    client          \* the terminal client (SshxClient) on frontend connection c1

sessVars == <<sessions, metadata, shells, users, next_sid, next_uid, terminated,
              update_queue>>
histVars == <<uid_log, sid_log, last_ingest>>
cliVars == <<cli_pc, active_session, cli_resp, cli_sent, cli_rx, stream_task, opening>>
wsVars == <<ws_pc, ws_session, ws_uid, ws_sent, ws_pending, subscribed,
            chunks_rx, pump, bcast>>
proxyVars == <<client_in, upstream_in, upstream_sent>>
dashVars == <<dashboards, session_metadata, dash_resp, cleanup_passes>>
transportVars == <<pending_requests, next_request_id, call, tr_out, tr_in, server_rx, reader>>
termVars == <<ESCAPE_STATE, stdin, session_loop>>
notTransport == <<conn, termVars, client>>
notConn == <<transportVars, termVars, client>>
hostVars == <<transportVars, notTransport>>
serverVars == <<sessVars, histVars, cliVars, wsVars, proxyVars, dashVars, now, last_accessed>>
extVars == <<dashVars, now, last_accessed, hostVars>>
vars == <<sessVars, histVars, cliVars, wsVars, proxyVars, extVars>>

DefaultWinsize == [x |-> 0, y |-> 0, rows |-> DefaultRows, cols |-> DefaultCols]
OtherWinsize == [x |-> 1, y |-> 1, rows |-> DefaultRows + 1, cols |-> DefaultCols + 1]
NoWinsize == [x |-> 0, y |-> 0, rows |-> 0, cols |-> 0]
NoShell == [status |-> "none", chunks |-> <<>>, byte_total |-> 0,
            winsize |-> DefaultWinsize]
NoMetadata == [encrypted_zeros |-> "z0", write_password_hash |-> "none"]
NoUser == [present |-> FALSE, name |-> "", cursor |-> "none", focus |-> 0,
           can_write |-> FALSE]
NoMsg == [kind |-> "none"]
NoDashboard == [exists |-> FALSE, created_at |-> 0, last_accessed |-> 0, session_names |-> {}]
NoSessionMetadata == [registered |-> FALSE, display_name |-> "", dashboard_key |-> ""]
NoDashResp == [kind |-> "none"]
NoOpen == [kind |-> "none"]
NoPump == [st |-> "none", start |-> 0, pos |-> 0, held |-> <<>>, seqnum |-> 0]
NoBcast == [on |-> FALSE, q |-> <<>>, lagged |-> FALSE]

(***************************************************************************)
(* Session engine.                                                         *)
(***************************************************************************)
\* Faulty variant of add_data: the accepted suffix is merged into the last chunk.
add_data_merge(sh, data, seq) ==
    IF sh.status # "open" \/ seq > sh.byte_total THEN [ok |-> FALSE, shell |-> sh]
    ELSE LET suffix == SubSeq(data, sh.byte_total - seq + 1, Len(data))
         IN  IF suffix = <<>> THEN [ok |-> TRUE, shell |-> sh]
             ELSE IF sh.chunks = <<>>
             THEN [ok |-> TRUE,
                   shell |-> [sh EXCEPT !.chunks = <<[data |-> suffix, offset |-> 0]>>,
                                        !.byte_total = Len(suffix)]]
             ELSE [ok |-> TRUE,
                   shell |-> [sh EXCEPT
                       !.chunks[Len(sh.chunks)].data = @ \o suffix,
                       !.byte_total = @ + Len(suffix)]]

\* add_data(shell_id, chunk, seq) on one shell record: the result and the shell.
add_data(sh, data, seq) ==
    IF sh.status # "open" THEN [ok |-> FALSE, shell |-> sh]
    ELSE IF seq > sh.byte_total THEN [ok |-> FALSE, shell |-> sh]
    ELSE LET suffix == SubSeq(data, sh.byte_total - seq + 1, Len(data))
         IN  IF suffix = <<>> THEN [ok |-> TRUE, shell |-> sh]
             ELSE [ok |-> TRUE,
                   shell |-> [sh EXCEPT
                       !.chunks = Append(@, [data |-> suffix, offset |-> sh.byte_total]),
                       !.byte_total = @ + Len(suffix)]]

\* add_shell(id, (x, y)): commits a shell the relay asked for; any other id is ignored.
\* Faulty variant of add_shell: any unknown id is committed, requested or not.
add_shell_any(n, sh, id, x, y) ==
    IF sh.status = "none"
    THEN [sh EXCEPT !.status = "open", !.winsize = [DefaultWinsize EXCEPT !.x = x, !.y = y]]
    ELSE sh

add_shell(n, sh, id, x, y) ==
    IF sh.status = "none" /\ id < next_sid[n]
    THEN [sh EXCEPT !.status = "open", !.winsize = [DefaultWinsize EXCEPT !.x = x, !.y = y]]
    ELSE sh

\* close_shell(id): tombstones the shell; its chunks stay.
close_shell(sh) ==
    IF sh.status = "open" THEN [ok |-> TRUE, shell |-> [sh EXCEPT !.status = "closed"]]
    ELSE [ok |-> sh.status = "closed", shell |-> sh]

\* move_shell(id, winsize?): updates the winsize of an open shell.
move_shell(sh, winsize) ==
    IF sh.status # "open" THEN [ok |-> FALSE, shell |-> sh]
    ELSE IF winsize = NoWinsize THEN [ok |-> TRUE, shell |-> sh]
    ELSE [ok |-> TRUE, shell |-> [sh EXCEPT !.winsize = winsize]]

\* check_write_permission(uid)
check_write_permission(n, uid) == users[n][uid].present /\ users[n][uid].can_write

\* The broadcast bus after one event is sent on session n's bus.
\* Faulty variant of the bus: one full receiver makes the event miss everybody.
BroadcastTo_shared(b, n, ev) ==
    IF \E d \in WsConns : b[d].on /\ ws_session[d] = n /\ Len(b[d].q) >= BroadcastCap
    THEN [c \in WsConns |->
            IF b[c].on /\ ws_session[c] = n /\ Len(b[c].q) >= BroadcastCap
            THEN [b[c] EXCEPT !.lagged = TRUE] ELSE b[c]]
    ELSE [c \in WsConns |->
            IF b[c].on /\ ws_session[c] = n THEN [b[c] EXCEPT !.q = Append(@, ev)]
            ELSE b[c]]

BroadcastTo(b, n, ev) ==
    [c \in WsConns |->
        IF b[c].on /\ ws_session[c] = n
        THEN IF Len(b[c].q) < BroadcastCap
             THEN [b[c] EXCEPT !.q = Append(@, ev)]
             ELSE [b[c] EXCEPT !.lagged = TRUE]
        ELSE b[c]]

UserDiff(uid, user) == [kind |-> "UserDiff", uid |-> uid, user |-> user]

NewUser(can_write) == [present |-> TRUE, name |-> "user", cursor |-> "none",
                       focus |-> 0, can_write |-> can_write]

\* update_user(uid, mutator): the read-modify-write of one roster entry; the diff is
\* emitted when the entry changed.
update_user(n, uid, user) ==
    /\ users' = [users EXCEPT ![n][uid] = user]
    /\ bcast' = IF user = users[n][uid] THEN bcast
                ELSE BroadcastTo(bcast, n, UserDiff(uid, user))

\* list_users(): the snapshot of the roster.
list_users(n) == {<<u, users[n][u]>> : u \in {v \in Uids : users[n][v].present}}

\* Offset(sh, k): the byte-offset of chunk k; for k = Len + 1, of the next chunk.
Offset(sh, k) == IF k <= Len(sh.chunks) THEN sh.chunks[k].offset ELSE sh.byte_total

\* The chunk index at which subscribe_chunks(sid, S) starts: 0 while none qualifies.
StartIndex(sh, S) ==
    LET cand == {k \in 1..(Len(sh.chunks) + 1) : Offset(sh, k) >= S}
    IN  IF cand = {} THEN 0 ELSE CHOOSE k \in cand : \A j \in cand : k <= j

\* The batch subscribe_chunks yields from index pos: contiguous chunks up to the budget.
RECURSIVE BatchLen(_, _, _, _)
BatchLen(cs, pos, count, bytes) ==
    IF pos > Len(cs) \/ count >= BatchChunks \/ bytes >= BatchBytes THEN count
    ELSE BatchLen(cs, pos + 1, count + 1, bytes + Len(cs[pos].data))


(***************************************************************************)
(* The host-agent channel: handle_cli_socket.                              *)
(***************************************************************************)
ReqIds == {"r1"}
NoResp == [id |-> "", kind |-> "none", text |-> ""]
CliError(id, text) == [id |-> id, kind |-> "Error", text |-> text]
CliReply(id, kind) == [id |-> id, kind |-> kind, text |-> ""]

\* The handler's tail: send_response(...).await? and back to the loop. act is the
\* active session after the request; start tells that StartChannel spawned a task.
\* A failed send returns from the handler at once: the receiver is dropped, the
\* streaming task (the one StartChannel has just spawned, if it did) is not aborted
\* and runs until its next send fails.
CliSendResponse(k, resp, ok, act, start) ==
    /\ IF ok
       THEN /\ cli_resp' = [cli_resp EXCEPT ![k] = resp]
            /\ active_session' = [active_session EXCEPT ![k] = act]
            /\ cli_pc' = cli_pc
            /\ cli_rx' = IF start THEN [cli_rx EXCEPT ![k] = <<>>] ELSE cli_rx
            /\ stream_task' = IF start THEN [stream_task EXCEPT ![k] = act]
                              ELSE stream_task
       ELSE /\ cli_resp' = cli_resp
            /\ active_session' = [active_session EXCEPT ![k] = NoSession]
            /\ cli_pc' = [cli_pc EXCEPT ![k] = "closed"]
            /\ cli_rx' = [cli_rx EXCEPT ![k] = <<>>]
            /\ stream_task' = IF start THEN [stream_task EXCEPT ![k] = act]
                              ELSE stream_task
    /\ cli_sent' = cli_sent

\* The tail of a handler that is not between the lookup and the insert of an Open.
CliRespond(k, resp, ok, act, start) ==
    /\ CliSendResponse(k, resp, ok, act, start)
    /\ opening' = opening

\* The handler's tail when no response is needed: continue.
CliContinue(k) ==
    /\ cli_resp' = [cli_resp EXCEPT ![k] = NoResp]
    /\ UNCHANGED <<cli_pc, active_session, cli_sent, opening, cli_rx, stream_task>>

CliReady(k) == cli_pc[k] = "open"

\* get_cli_ws: the upgrade; the message loop starts with no active session.
CliConnect(k) ==
    /\ cli_pc[k] = "idle"
    /\ cli_pc' = [cli_pc EXCEPT ![k] = "open"]
    /\ UNCHANGED <<sessVars, histVars, extVars, proxyVars, wsVars, active_session, cli_resp, cli_sent, opening,
                   cli_rx, stream_task>>

\* The state of a session as Session::new makes it.
NewSession(f, n, init) == [f EXCEPT ![n] = init]

\* OpenSession, first half, run while another handler may run on another thread:
\* rand_alphanumeric draws n and state.lookup(n) finds nothing.
CliOpenLookup(k, id, origin, n, zeros, hash) ==
    /\ CliReady(k)
    /\ opening[k] = NoOpen
    /\ origin # ""
    /\ n \notin sessions /\ ~terminated[n]
    /\ opening' = [opening EXCEPT ![k] =
           [kind |-> "OpenSession", id |-> id, origin |-> origin, name |-> n,
            zeros |-> zeros, hash |-> hash]]
    /\ UNCHANGED <<sessVars, histVars, extVars, proxyVars, wsVars, cli_pc, active_session, cli_resp,
                   cli_sent, cli_rx, stream_task>>

\* OpenSession, second half: state.insert puts a new Session under the name,
\* whatever the map holds there by now, and the response is sent.
CliOpenInsert(k, ok) ==
    /\ CliReady(k)
    /\ opening[k] # NoOpen
    /\ LET o == opening[k]
           n == o.name
       IN  /\ sessions' = sessions \cup {n}
           /\ metadata' = [metadata EXCEPT
                  ![n] = [encrypted_zeros |-> o.zeros, write_password_hash |-> o.hash]]
           /\ shells' = NewSession(shells, n, [s \in Sids |-> NoShell])
           /\ users' = NewSession(users, n, [u \in Uids |-> NoUser])
           /\ next_sid' = NewSession(next_sid, n, 1)
           /\ next_uid' = NewSession(next_uid, n, 1)
           /\ update_queue' = NewSession(update_queue, n, <<>>)
           /\ terminated' = NewSession(terminated, n, FALSE)
           /\ CliSendResponse(k, [id |-> o.id, kind |-> "OpenSession", text |-> "",
                                  name |-> n,
                                  token |-> Base64Encode(Hmac(ServerSecret, n)),
                                  url |-> <<o.origin, "/s/", n>>],
                              ok, active_session[k], FALSE)
    /\ opening' = [opening EXCEPT ![k] = NoOpen]
    /\ last_accessed' = [last_accessed EXCEPT ![opening[k].name] = now]
    /\ UNCHANGED <<histVars, dashVars, now, hostVars, proxyVars, wsVars>>

\* OpenSession: rand_alphanumeric draws n.
CliOpenSession(k, id, origin, n, zeros, hash, ok) ==
    /\ CliReady(k)
    /\ n \in sessions \/ ~terminated[n]
    /\ IF origin = ""
       THEN /\ CliRespond(k, CliError(id, "origin is empty"), ok, active_session[k], FALSE)
            /\ UNCHANGED <<sessions, metadata, last_accessed>>
       ELSE IF n \in sessions
       THEN /\ CliRespond(k, CliError(id, "generated duplicate ID"), ok, active_session[k], FALSE)
            /\ UNCHANGED <<sessions, metadata, last_accessed>>
       ELSE /\ sessions' = sessions \cup {n}
            /\ metadata' = [metadata EXCEPT
                   ![n] = [encrypted_zeros |-> zeros, write_password_hash |-> hash]]
            /\ last_accessed' = [last_accessed EXCEPT ![n] = now]
            /\ CliRespond(k, [id |-> id, kind |-> "OpenSession", text |-> "",
                              name |-> n,
                              token |-> Base64Encode(Hmac(ServerSecret, n)),
                              url |-> <<origin, "/s/", n>>], ok, active_session[k], FALSE)
    /\ UNCHANGED <<shells, users, next_sid, next_uid, terminated, update_queue,
                   histVars, dashVars, now, hostVars,
                   proxyVars, wsVars>>

\* Faulty variant of CloseSession: the session is closed whatever the token.
CliCloseSession_open(k, id, n, token, ok) ==
    /\ CliReady(k)
    /\ IF n \notin sessions
       THEN /\ CliRespond(k, CliError(id, "session not found"), ok, active_session[k], FALSE)
            /\ UNCHANGED <<sessions, terminated>>
       ELSE /\ sessions' = sessions \ {n}
            /\ terminated' = [terminated EXCEPT ![n] = TRUE]
            /\ CliRespond(k, CliReply(id, "CloseSession"), ok, active_session[k], FALSE)
    /\ UNCHANGED <<metadata, shells, users, next_sid, next_uid, update_queue,
                   histVars, extVars, proxyVars, wsVars>>

\* CloseSession: validate_token, then state.close_session(name).
CliCloseSession(k, id, n, token, ok) ==
    /\ CliReady(k)
    /\ IF ~validate_token(n, token)
       THEN /\ CliRespond(k, CliError(id, "invalid token"), ok, active_session[k], FALSE)
            /\ UNCHANGED <<sessions, terminated>>
       ELSE IF n \notin sessions
       THEN /\ CliRespond(k, CliError(id, "session not found"), ok, active_session[k], FALSE)
            /\ UNCHANGED <<sessions, terminated>>
       ELSE /\ sessions' = sessions \ {n}
            /\ terminated' = [terminated EXCEPT ![n] = TRUE]
            /\ CliRespond(k, CliReply(id, "CloseSession"), ok, active_session[k], FALSE)
    /\ UNCHANGED <<metadata, shells, users, next_sid, next_uid, update_queue,
                   histVars, extVars, proxyVars, wsVars>>

\* Faulty variant of StartChannel: the session is attached whatever the token.
CliStartChannel_open(k, id, n, token, ok) ==
    /\ CliReady(k)
    /\ IF n \notin sessions
       THEN CliRespond(k, CliError(id, "session not found"), ok, active_session[k], FALSE)
       ELSE CliRespond(k, CliReply(id, "StartChannel"), ok, n, TRUE)
    /\ UNCHANGED <<sessVars, histVars, extVars, proxyVars, wsVars>>

\* StartChannel: validate_token, then state.backend_connect(name) attaches the session.
CliStartChannel(k, id, n, token, ok) ==
    /\ CliReady(k)
    /\ IF ~validate_token(n, token)
       THEN CliRespond(k, CliError(id, "invalid token"), ok, active_session[k], FALSE)
       ELSE IF n \notin sessions
       THEN CliRespond(k, CliError(id, "session not found"), ok, active_session[k], FALSE)
       ELSE CliRespond(k, CliReply(id, "StartChannel"), ok, n, TRUE)
    /\ UNCHANGED <<sessVars, histVars, extVars, proxyVars, wsVars>>

\* Faulty variant of the TerminalData arm: appends whatever arrives at the head,
\* without looking at seq.
TerminalData_blind(n, sh, data, seq) ==
    IF n = NoSession THEN [shell |-> sh, error |-> "no active session"]
    ELSE LET r == add_data(sh, data, sh.byte_total)
         IN  IF r.ok THEN [shell |-> r.shell, error |-> ""]
             ELSE [shell |-> r.shell, error |-> "add data"]

\* Faulty variant of the TerminalData arm: a gap is filled silently instead of failing.
TerminalData_fill(n, sh, data, seq) ==
    IF n = NoSession THEN [shell |-> sh, error |-> "no active session"]
    ELSE LET r == add_data(sh, data, IF seq > sh.byte_total THEN sh.byte_total ELSE seq)
         IN  IF r.ok THEN [shell |-> r.shell, error |-> ""]
             ELSE [shell |-> r.shell, error |-> "add data"]

\* The TerminalData arm: the shell afterwards and the error text of the response
\* ("" when the handler continues without a response).
TerminalData(n, sh, data, seq) ==
    IF n = NoSession THEN [shell |-> sh, error |-> "no active session"]
    ELSE LET r == add_data(sh, data, seq)
         IN  IF r.ok THEN [shell |-> r.shell, error |-> ""]
             ELSE [shell |-> r.shell, error |-> "add data"]

\* The CreatedShell arm.
CreatedShell(n, sh, id, x, y) ==
    IF n = NoSession THEN [shell |-> sh, error |-> "no active session"]
    ELSE [shell |-> add_shell(n, sh, id, x, y), error |-> ""]

\* The ClosedShell arm.
ClosedShell(n, sh) ==
    IF n = NoSession THEN [shell |-> sh, error |-> "no active session"]
    ELSE LET r == close_shell(sh)
         IN  IF r.ok THEN [shell |-> r.shell, error |-> ""]
             ELSE [shell |-> r.shell, error |-> "close shell"]

\* How a Data{id, data, seq} message meets the shell: the case of the ingest rules.
IngestCase(n, sh, data, seq) ==
    IF n = NoSession THEN "detached"
    ELSE IF sh.status # "open" THEN "closed"
    ELSE IF seq > sh.byte_total THEN "gap"
    ELSE IF seq + Len(data) <= sh.byte_total THEN "stale"
    ELSE IF seq < sh.byte_total THEN "suffix"
    ELSE "full"

\* A request that acts on one shell of the active session: r is its arm's result.
CliShellRequest(k, id, sid, r, ok) ==
    /\ IF active_session[k] = NoSession THEN shells' = shells
       ELSE shells' = [shells EXCEPT ![active_session[k]][sid] = r.shell]
    /\ IF r.error = "" THEN CliContinue(k)
       ELSE CliRespond(k, CliError(id, r.error), ok, active_session[k], FALSE)
    /\ UNCHANGED <<sessions, metadata, users, next_sid, next_uid, terminated,
                   update_queue, uid_log, sid_log, wsVars>>

RECURSIVE SumOver(_, _)
SumOver(f, S) == IF S = {} THEN 0
                 ELSE LET x == CHOOSE y \in S : TRUE IN f[x] + SumOver(f, S \ {x})

\* The bytes the relay stores, all shells of all sessions together.
StoredBytes(sh) ==
    SumOver([p \in Names \X Sids |-> sh[p[1]][p[2]].byte_total], Names \X Sids)

ShellOf(n, sid) == IF n = NoSession THEN NoShell ELSE shells[n][sid]

\* TerminalData: session.add_data(Sid(data.id), data.data, data.seq)
CliTerminalData(k, id, sid, data, seq, ok) ==
    /\ CliReady(k)
    /\ LET n == active_session[k]
           r == TerminalData(n, ShellOf(n, sid), data, seq)
       IN  /\ CliShellRequest(k, id, sid, r, ok)
           /\ StoredBytes(shells') <= MaxTotal
           /\ last_ingest' = [case |-> IngestCase(n, ShellOf(n, sid), data, seq),
                               tick |-> 1 - last_ingest.tick]
           /\ UNCHANGED <<proxyVars, extVars>>

\* CreatedShell: session.add_shell(Sid(new_shell.id), (new_shell.x, new_shell.y))
CliCreatedShell(k, id, sid, x, y, ok) ==
    /\ CliReady(k)
    /\ LET n == active_session[k]
       IN  CliShellRequest(k, id, sid, CreatedShell(n, ShellOf(n, sid), sid, x, y), ok)
    /\ UNCHANGED <<last_ingest, proxyVars, extVars>>

\* ClosedShell: session.close_shell(Sid(shell_id))
CliClosedShell(k, id, sid, ok) ==
    /\ CliReady(k)
    /\ LET n == active_session[k]
       IN  CliShellRequest(k, id, sid, ClosedShell(n, ShellOf(n, sid)), ok)
    /\ UNCHANGED <<last_ingest, proxyVars, extVars>>

\* Pong: session.send_latency_measurement(latency) when a session is attached.
CliPong(k) ==
    /\ CliReady(k)
    /\ LET n == active_session[k] IN
       IF n = NoSession THEN bcast' = bcast
       ELSE bcast' = BroadcastTo(bcast, n, [kind |-> "ShellLatency"])
    /\ CliContinue(k)
    /\ UNCHANGED <<sessVars, histVars, extVars, proxyVars, ws_pc, ws_session, ws_uid, ws_sent,
                   ws_pending, subscribed, chunks_rx, pump>>

\* Faulty variant of the end of the host-agent connection: it closes the session
\* the connection was attached to.
CliRecvNone_closes(k) ==
    /\ cli_pc[k] = "open"
    /\ cli_pc' = [cli_pc EXCEPT ![k] = "closed"]
    /\ active_session' = [active_session EXCEPT ![k] = NoSession]
    /\ cli_rx' = [cli_rx EXCEPT ![k] = <<>>]
    /\ stream_task' = [stream_task EXCEPT ![k] = NoSession]
    /\ terminated' = [n \in Names |-> terminated[n] \/ n = active_session[k]]
    /\ sessions' = sessions \ {active_session[k]}
    /\ UNCHANGED <<metadata, shells, users, next_sid, next_uid, update_queue,
                   histVars, extVars, proxyVars, wsVars, cli_resp, cli_sent, opening>>

\* The client closed the socket: recv_request yields None, the loop breaks.
CliRecvNone(k) ==
    /\ cli_pc[k] = "open"
    /\ cli_pc' = [cli_pc EXCEPT ![k] = "closed"]
    /\ active_session' = [active_session EXCEPT ![k] = NoSession]
    /\ cli_rx' = [cli_rx EXCEPT ![k] = <<>>]
    /\ stream_task' = [stream_task EXCEPT ![k] = NoSession]
    /\ UNCHANGED <<sessVars, histVars, extVars, proxyVars, wsVars, cli_resp, cli_sent, opening>>

\* recv_request reads a binary frame that does not decode: a warning is logged and
\* the read loop goes on; the handler does not see the frame.
CliRecvUnparseable(k) ==
    /\ cli_pc[k] = "open"
    /\ UNCHANGED vars

\* recv_request fails (the socket broke): request? returns from the handler at once;
\* the receiver is dropped and the streaming task is not aborted.
CliRecvError(k) ==
    /\ cli_pc[k] = "open"
    /\ cli_pc' = [cli_pc EXCEPT ![k] = "closed"]
    /\ active_session' = [active_session EXCEPT ![k] = NoSession]
    /\ cli_rx' = [cli_rx EXCEPT ![k] = <<>>]
    /\ UNCHANGED <<sessVars, histVars, extVars, proxyVars, wsVars, cli_resp, cli_sent, opening, stream_task>>

\* convert_server_message_to_cli
convert_server_message_to_cli(msg) ==
    [id |-> "server_update", kind |-> msg.kind, text |-> "", msg |-> msg]

\* handle_cli_streaming: session.update_rx().recv() => send_msg(tx, msg)
CliStreamUpdate(k) ==
    /\ stream_task[k] # NoSession
    /\ LET n == stream_task[k] IN
       /\ update_queue[n] # <<>>
       /\ update_queue' = [update_queue EXCEPT ![n] = Tail(@)]
       /\ IF cli_pc[k] = "closed"
          THEN /\ cli_rx' = cli_rx
               /\ stream_task' = [stream_task EXCEPT ![k] = NoSession]
          ELSE /\ Len(cli_rx[k]) < TxCap
               /\ cli_rx' = [cli_rx EXCEPT ![k] = Append(@, Head(update_queue[n]))]
               /\ stream_task' = stream_task
    /\ UNCHANGED <<sessions, metadata, shells, users, next_sid, next_uid, terminated,
                   histVars, extVars, proxyVars, wsVars, cli_pc, active_session, cli_resp, cli_sent, opening>>

\* Faulty variant of sequence_numbers: the numbers run one byte ahead.
sequence_numbers_ahead(n) ==
    [sid \in {x \in Sids : shells[n][x].status = "open"} |-> shells[n][sid].byte_total + 1]

\* sequence_numbers(): the byte_total of every open shell.
sequence_numbers(n) ==
    [sid \in {x \in Sids : shells[n][x].status = "open"} |-> shells[n][sid].byte_total]

\* handle_cli_streaming: sync_interval.tick() and ping_interval.tick() => send_msg;
\* a failed send ends the task.
CliStreamTick(k, kind) ==
    /\ stream_task[k] # NoSession
    /\ IF cli_pc[k] = "closed"
       THEN /\ cli_rx' = cli_rx
            /\ stream_task' = [stream_task EXCEPT ![k] = NoSession]
       ELSE /\ Len(cli_rx[k]) < TxCap
            /\ cli_rx' = [cli_rx EXCEPT ![k] = Append(@,
                   IF kind = "Sync"
                   THEN [kind |-> "Sync", seqs |-> sequence_numbers(stream_task[k])]
                   ELSE [kind |-> "Ping"])]
            /\ stream_task' = stream_task
    /\ UNCHANGED <<sessVars, histVars, extVars, proxyVars, wsVars, cli_pc, active_session, cli_resp,
                   cli_sent, opening>>

DisconnectError == [kind |-> "Error", text |-> "disconnecting because session is closed"]

\* Faulty variant of the terminated arm: the Error is sent and the loop goes on.
CliStreamTerminated_keeps(k) ==
    /\ stream_task[k] # NoSession
    /\ terminated[stream_task[k]]
    /\ cli_pc[k] # "closed"
    /\ Len(cli_rx[k]) < TxCap
    /\ IF cli_rx[k] = <<>> THEN TRUE ELSE cli_rx[k][Len(cli_rx[k])] # DisconnectError
    /\ cli_rx' = [cli_rx EXCEPT ![k] = Append(@, DisconnectError)]
    /\ UNCHANGED <<sessVars, histVars, extVars, proxyVars, wsVars, cli_pc, active_session, cli_resp,
                   cli_sent, opening, stream_task>>

\* handle_cli_streaming: session.terminated() => send the Error and return
CliStreamTerminated(k) ==
    /\ stream_task[k] # NoSession
    /\ terminated[stream_task[k]]
    /\ IF cli_pc[k] = "closed" THEN cli_rx' = cli_rx
       ELSE /\ Len(cli_rx[k]) < TxCap
            /\ cli_rx' = [cli_rx EXCEPT ![k] = Append(@, DisconnectError)]
    /\ stream_task' = [stream_task EXCEPT ![k] = NoSession]
    /\ UNCHANGED <<sessVars, histVars, extVars, proxyVars, wsVars, cli_pc, active_session, cli_resp,
                   cli_sent, opening>>

\* handle_cli_socket: the server_msg branch forwards what the streaming task sent.
CliForward(k, ok) ==
    /\ cli_pc[k] = "open"
    /\ active_session[k] # NoSession
    /\ cli_rx[k] # <<>>
    /\ Len(cli_sent[k]) < MaxCliSent
    /\ IF ok
       THEN /\ cli_sent' = [cli_sent EXCEPT ![k] =
                   Append(@, convert_server_message_to_cli(Head(cli_rx[k])))]
            /\ cli_rx' = [cli_rx EXCEPT ![k] = Tail(@)]
            /\ UNCHANGED <<cli_pc, active_session, stream_task>>
       ELSE /\ cli_sent' = cli_sent
            /\ active_session' = [active_session EXCEPT ![k] = NoSession]
            /\ cli_pc' = [cli_pc EXCEPT ![k] = "closed"]
            /\ cli_rx' = [cli_rx EXCEPT ![k] = <<>>]
            /\ stream_task' = stream_task
    /\ UNCHANGED <<sessVars, histVars, extVars, proxyVars, wsVars, cli_resp, opening>>

\* The idle reaper: a session with no backend channel and no frontend is closed.
IdleReaper(n) ==
    /\ n \in sessions
    /\ \A k \in CliConns : active_session[k] # n /\ stream_task[k] # n
    /\ \A c \in WsConns : ws_session[c] = n => ws_pc[c] \in {"idle", "closed"}
    /\ sessions' = sessions \ {n}
    /\ terminated' = [terminated EXCEPT ![n] = TRUE]
    /\ UNCHANGED <<metadata, shells, users, next_sid, next_uid, update_queue,
                   histVars, extVars, proxyVars, cliVars, wsVars>>

(***************************************************************************)
(* Properties of data ingest.                                              *)
(***************************************************************************)
\* The terminal bytes of a shell, in order.
Bytes(sh) == Flatten(sh.chunks)

\* The shell after the relay handles Data{sid, data, seq} on attached session n.
After(n, sh, data, seq) == TerminalData(n, sh, data, seq).shell

\* Handling the same Data message twice in a row leaves the shell as after once.
Idempotent(n, sh) ==
    \A d \in DataSet, s \in Seqs :
        After(n, After(n, sh, d, s), d, s) = After(n, sh, d, s)

\* After (d1, s1), a following (d2, s2) appends exactly d2[s1 + len(d1) - s2 ..].
FollowsBy(n, sh, d1, s1, d2, s2) ==
    LET one == After(n, sh, d1, s1)
        two == After(n, one, d2, s2)
        tail == SubSeq(d2, s1 + Len(d1) - s2 + 1, Len(d2))
    IN  /\ Bytes(two) = Bytes(one) \o tail
        /\ two.byte_total = one.byte_total + Len(tail)

\* C1 (as stated): ingest is idempotent, and after add_data(sid, d1, s1) on any open
\* shell a following add_data(sid, d2, s2) with s2 <= s1 + len(d1) appends exactly the
\* bytes d2[s1 + len(d1) - s2 ..], whatever the first call did.
C1_AsStated ==
    \A n \in sessions, sid \in Sids :
        LET sh == shells[n][sid]
        IN  /\ Idempotent(n, sh)
            /\ sh.status = "open" =>
                   \A d1 \in DataSet, d2 \in DataSet, s1 \in Seqs, s2 \in Seqs :
                       s2 <= s1 + Len(d1) => FollowsBy(n, sh, d1, s1, d2, s2)

\* C1 (amended): ingest is idempotent, and when add_data(sid, d1, s1) reaches the head
\* of an open shell (s1 <= byte_total <= s1 + len(d1), so that byte_total becomes
\* s1 + len(d1)), a following add_data(sid, d2, s2) with s2 <= s1 + len(d1) appends
\* exactly the bytes d2[s1 + len(d1) - s2 ..].
C1_Idempotent ==
    \A n \in sessions, sid \in Sids :
        LET sh == shells[n][sid]
        IN  /\ Idempotent(n, sh)
            /\ sh.status = "open" =>
                   \A d1 \in DataSet, d2 \in DataSet, s1 \in Seqs, s2 \in Seqs :
                       (s1 <= sh.byte_total /\ sh.byte_total <= s1 + Len(d1)
                            /\ s2 <= s1 + Len(d1))
                           => FollowsBy(n, sh, d1, s1, d2, s2)

\* A retransmission overlapping the stored bytes was handled on a shell that holds
\* two chunks: only its new suffix was appended.
C1_Witness ==
    /\ last_ingest.case = "suffix"
    /\ \E n \in sessions, sid \in Sids :
           shells[n][sid].status = "open" /\ Len(shells[n][sid].chunks) >= 2

\* A step that handles a TerminalData message whose seq lies beyond byte_total.
GapStep == last_ingest'.tick # last_ingest.tick /\ last_ingest'.case = "gap"

\* C2: a Data message with seq > byte_total of an open shell draws an Error response
\* from the relay and appends nothing: no shell of any session changes.
C2_GapRejected ==
    [][GapStep => /\ shells' = shells
                  /\ \E k \in CliConns : /\ cli_resp'[k].kind = "Error"
                                          /\ cli_resp'[k].text = "add data"]_vars

\* A gap was just rejected on a shell that already stores bytes.
C2_Witness ==
    /\ last_ingest.case = "gap"
    /\ \E k \in CliConns :
           /\ cli_resp[k].kind = "Error" /\ cli_resp[k].text = "add data"
           /\ active_session[k] # NoSession
           /\ \E sid \in Sids : shells[active_session[k]][sid].byte_total > 0

\* Every chunk's offset is the sum of the lengths before it; byte_total is the sum of all.
OffsetLaw(sh) ==
    /\ \A j \in 1..Len(sh.chunks) :
           /\ sh.chunks[j].offset = SumLen(SubSeq(sh.chunks, 1, j - 1))
           /\ sh.chunks[j].data # <<>>
    /\ sh.byte_total = SumLen(sh.chunks)

\* The chunks a shell held before a step are the first chunks it holds after it.
ChunksKept ==
    \A n \in Names, sid \in Sids :
        n \in sessions /\ n \in sessions' =>
            /\ Len(shells'[n][sid].chunks) >= Len(shells[n][sid].chunks)
            /\ SubSeq(shells'[n][sid].chunks, 1, Len(shells[n][sid].chunks))
                   = shells[n][sid].chunks

\* C3: in every shell, chunk j's offset is the sum of the lengths of the chunks before
\* it and byte_total is the sum of all lengths; no step reorders, splits or removes
\* a chunk that is stored.
C3_OffsetLaw ==
    /\ [](\A n \in Names, sid \in Sids : OffsetLaw(shells[n][sid]))
    /\ [][ChunksKept]_vars

\* A shell holding three chunks was closed: its chunks are still there.
C3_Witness ==
    \E n \in sessions, sid \in Sids :
        /\ shells[n][sid].status = "closed"
        /\ Len(shells[n][sid].chunks) = 3

(***************************************************************************)
(* The frontend channel: handle_socket.                                    *)
(***************************************************************************)
WsFrame(kind) == [kind |-> kind]

\* Faulty variant of the drop of the locals: the user guard is forgotten, the user
\* stays in the roster and no diff goes out.
WsDrop_leak(c, guarded) ==
    /\ ws_pc' = [ws_pc EXCEPT ![c] = "closed"]
    /\ chunks_rx' = [chunks_rx EXCEPT ![c] = <<>>]
    /\ ws_pending' = [ws_pending EXCEPT ![c] = NoMsg]
    /\ users' = users
    /\ bcast' = [bcast EXCEPT ![c] = NoBcast]

\* What dropping the connection's locals does: the user guard removes the user and
\* emits the absent diff, the broadcast receiver and chunks_rx go away.
WsDrop(c, guarded) ==
    LET n == ws_session[c]
        off == [bcast EXCEPT ![c] = NoBcast]
    IN  /\ ws_pc' = [ws_pc EXCEPT ![c] = "closed"]
        /\ chunks_rx' = [chunks_rx EXCEPT ![c] = <<>>]
        /\ ws_pending' = [ws_pending EXCEPT ![c] = NoMsg]
        /\ IF guarded
           THEN /\ users' = [users EXCEPT ![n][ws_uid[c]] = NoUser]
                /\ bcast' = BroadcastTo(off, n, UserDiff(ws_uid[c], NoUser))
           ELSE /\ users' = users
                /\ bcast' = off

\* send(socket, msg).await? inside the main loop, then continue.
WsSend(c, frame, ok) ==
    IF ok
    THEN /\ ws_sent' = [ws_sent EXCEPT ![c] = Append(@, frame)]
         /\ UNCHANGED <<ws_pc, chunks_rx, ws_pending, users, bcast>>
    ELSE /\ ws_sent' = ws_sent
         /\ WsDrop(c, TRUE)

\* update_tx.send(msg).await?: enqueue, or wait for capacity.
WsEnqueue(c, msg) ==
    LET n == ws_session[c] IN
    IF Len(update_queue[n]) < MaxQueue
    THEN /\ update_queue' = [update_queue EXCEPT ![n] = Append(@, msg)]
         /\ UNCHANGED <<ws_pc, ws_pending>>
    ELSE /\ update_queue' = update_queue
         /\ ws_pc' = [ws_pc EXCEPT ![c] = "await_queue"]
         /\ ws_pending' = [ws_pending EXCEPT ![c] = msg]

\* Faulty variant of the head of handle_socket: the uid is read, the counter stays.
WsConnect_reuse(c, n, ok) ==
    /\ ws_pc[c] = "idle"
    /\ ws_session' = [ws_session EXCEPT ![c] = n]
    /\ IF n \notin sessions
       THEN /\ ws_pc' = [ws_pc EXCEPT ![c] = "closed"]
            /\ ws_sent' = [ws_sent EXCEPT ![c] = Append(@, WsFrame("Close4404"))]
            /\ UNCHANGED <<uid_log, ws_uid>>
       ELSE /\ next_uid[n] \in Uids
            /\ uid_log' = [uid_log EXCEPT ![n] = Append(@, next_uid[n])]
            /\ ws_uid' = [ws_uid EXCEPT ![c] = next_uid[n]]
            /\ IF ok
               THEN /\ ws_sent' = [ws_sent EXCEPT ![c] =
                           Append(@, [kind |-> "Hello", uid |-> next_uid[n]])]
                    /\ ws_pc' = [ws_pc EXCEPT ![c] = "greeted"]
               ELSE /\ ws_sent' = ws_sent
                    /\ ws_pc' = [ws_pc EXCEPT ![c] = "closed"]
    /\ UNCHANGED <<sessions, metadata, shells, users, next_sid, next_uid, terminated,
                   update_queue, sid_log, last_ingest, proxyVars, extVars, cliVars, ws_pending,
                   subscribed, chunks_rx, pump, bcast>>

\* get_session_ws and the head of handle_socket: next_uid, sync_now, send Hello.
WsConnect(c, n, ok) ==
    /\ ws_pc[c] = "idle"
    /\ ws_session' = [ws_session EXCEPT ![c] = n]
    /\ IF n \notin sessions
       THEN /\ ws_pc' = [ws_pc EXCEPT ![c] = "closed"]
            /\ ws_sent' = [ws_sent EXCEPT ![c] = Append(@, WsFrame("Close4404"))]
            /\ UNCHANGED <<next_uid, uid_log, ws_uid>>
       ELSE /\ next_uid[n] \in Uids
            /\ next_uid' = [next_uid EXCEPT ![n] = @ + 1]
            /\ uid_log' = [uid_log EXCEPT ![n] = Append(@, next_uid[n])]
            /\ ws_uid' = [ws_uid EXCEPT ![c] = next_uid[n]]
            /\ IF ok
               THEN /\ ws_sent' = [ws_sent EXCEPT ![c] =
                           Append(@, [kind |-> "Hello", uid |-> next_uid[n]])]
                    /\ ws_pc' = [ws_pc EXCEPT ![c] = "greeted"]
               ELSE /\ ws_sent' = ws_sent
                    /\ ws_pc' = [ws_pc EXCEPT ![c] = "closed"]
    /\ UNCHANGED <<sessions, metadata, shells, users, next_sid, terminated,
                   update_queue, sid_log, last_ingest, proxyVars, extVars, cliVars, ws_pending,
                   subscribed, chunks_rx, pump, bcast>>

\* The first frames a client can send: kind is Authenticate, Other (any other verb),
\* None (the socket ended) or Undecodable (recv fails).
FirstFrames ==
    {[kind |-> "Authenticate", witness |-> w, write |-> p] :
        w \in {"z1", "z2"}, p \in {"none", "h1", "h2"}}
    \cup {[kind |-> k, witness |-> "z1", write |-> "none"] :
        k \in {"Other", "None", "Undecodable"}}

\* Faulty variant of the handshake match: a wrong write witness joins as a reader.
AuthOutcome_lenient(meta, frame) ==
    IF frame.kind # "Authenticate" THEN "reject"
    ELSE IF frame.witness # meta.encrypted_zeros THEN "reject"
    ELSE IF meta.write_password_hash = "none" THEN "writer"
    ELSE IF frame.write = meta.write_password_hash THEN "writer"
    ELSE "reader"

\* The outcome of the handshake match: "reject", "reader" or "writer".
AuthOutcome(meta, frame) ==
    IF frame.kind # "Authenticate" THEN "reject"
    ELSE IF frame.witness # meta.encrypted_zeros THEN "reject"
    ELSE IF meta.write_password_hash = "none" THEN "writer"
    ELSE IF frame.write = "none" THEN "reader"
    ELSE IF frame.write # meta.write_password_hash THEN "reject"
    ELSE "writer"

\* Faulty variant of the handshake: the user joins the roster and no diff goes out.
WsAuthenticate_quiet(c, frame, ok) ==
    /\ ws_pc[c] = "greeted"
    /\ LET n == ws_session[c]
           out == AuthOutcome(metadata[n], frame)
       IN  IF frame.kind = "Undecodable"
           THEN /\ ws_pc' = [ws_pc EXCEPT ![c] = "closed"]
                /\ UNCHANGED <<users, bcast, ws_sent>>
           ELSE IF out = "reject"
           THEN /\ ws_pc' = [ws_pc EXCEPT ![c] = "closed"]
                /\ ws_sent' = [ws_sent EXCEPT ![c] =
                       IF ok THEN Append(@, WsFrame("InvalidAuth")) ELSE @]
                /\ UNCHANGED <<users, bcast>>
           ELSE /\ users' = [users EXCEPT ![n][ws_uid[c]] = NewUser(out = "writer")]
                /\ bcast' = [bcast EXCEPT ![c] =
                       [on |-> TRUE, q |-> <<>>, lagged |-> FALSE]]
                /\ ws_sent' = ws_sent
                /\ ws_pc' = [ws_pc EXCEPT ![c] = "authed"]
    /\ UNCHANGED <<sessions, metadata, shells, next_sid, next_uid, terminated,
                   update_queue, histVars, extVars, proxyVars, cliVars, ws_session, ws_uid,
                   ws_pending, subscribed, chunks_rx, pump>>

\* Faulty variant of the handshake: the user is registered and announced before the
\* witness is looked at, and a rejected connection leaves it behind.
WsAuthenticate_early(c, frame, ok) ==
    /\ ws_pc[c] = "greeted"
    /\ LET n == ws_session[c]
           uid == ws_uid[c]
           out == AuthOutcome(metadata[n], frame)
           user == NewUser(out = "writer")
           joined == [users EXCEPT ![n][uid] = user]
           heard == BroadcastTo(bcast, n, UserDiff(uid, user))
       IN  /\ users' = joined
           /\ IF out = "reject"
              THEN /\ ws_pc' = [ws_pc EXCEPT ![c] = "closed"]
                   /\ ws_sent' = [ws_sent EXCEPT ![c] =
                          IF ok THEN Append(@, WsFrame("InvalidAuth")) ELSE @]
                   /\ bcast' = heard
              ELSE /\ bcast' = [heard EXCEPT ![c] =
                          [on |-> TRUE, q |-> <<>>, lagged |-> FALSE]]
                   /\ ws_sent' = ws_sent
                   /\ ws_pc' = [ws_pc EXCEPT ![c] = "authed"]
    /\ UNCHANGED <<sessions, metadata, shells, next_sid, next_uid, terminated,
                   update_queue, histVars, extVars, proxyVars, cliVars, ws_session, ws_uid,
                   ws_pending, subscribed, chunks_rx, pump>>

\* handle_socket from recv of the first frame to subscribe_broadcast: the match on
\* the frame, user_scope (the user joins and its diff goes out), update_tx and
\* subscribe_broadcast. Another task's roster change that falls between user_scope
\* and subscribe_broadcast is seen by this connection as one that came before both.
WsAuthenticate(c, frame, ok) ==
    /\ ws_pc[c] = "greeted"
    /\ LET n == ws_session[c]
           uid == ws_uid[c]
           out == AuthOutcome(metadata[n], frame)
       IN  IF frame.kind = "Undecodable"
           THEN /\ ws_pc' = [ws_pc EXCEPT ![c] = "closed"]
                /\ UNCHANGED <<users, bcast, ws_sent>>
           ELSE IF out = "reject"
           THEN /\ ws_pc' = [ws_pc EXCEPT ![c] = "closed"]
                /\ ws_sent' = [ws_sent EXCEPT ![c] =
                       IF ok THEN Append(@, WsFrame("InvalidAuth")) ELSE @]
                /\ UNCHANGED <<users, bcast>>
           ELSE LET user == NewUser(out = "writer")
                    heard == BroadcastTo(bcast, n, UserDiff(uid, user))
                IN  /\ users' = [users EXCEPT ![n][uid] = user]
                    /\ bcast' = [heard EXCEPT ![c] =
                           [on |-> TRUE, q |-> <<>>, lagged |-> FALSE]]
                    /\ ws_sent' = ws_sent
                    /\ ws_pc' = [ws_pc EXCEPT ![c] = "authed"]
    /\ UNCHANGED <<sessions, metadata, shells, next_sid, next_uid, terminated,
                   update_queue, histVars, extVars, proxyVars, cliVars, ws_session, ws_uid,
                   ws_pending, subscribed, chunks_rx, pump>>

\* send(socket, WsServer::Users(session.list_users())).await?: the snapshot is taken
\* after subscribe_broadcast, and the main loop starts once it is sent.
WsUsers(c, ok) ==
    /\ ws_pc[c] = "authed"
    /\ IF ok
       THEN /\ ws_sent' = [ws_sent EXCEPT ![c] = Append(@,
                   [kind |-> "Users", users |-> list_users(ws_session[c])])]
            /\ ws_pc' = [ws_pc EXCEPT ![c] = "running"]
            /\ UNCHANGED <<chunks_rx, ws_pending, users, bcast>>
       ELSE /\ ws_sent' = ws_sent
            /\ WsDrop(c, TRUE)
    /\ UNCHANGED <<sessions, metadata, shells, next_sid, next_uid, terminated,
                   update_queue, histVars, extVars, proxyVars, cliVars, ws_session, ws_uid,
                   subscribed, pump>>

WsRunning(c) == ws_pc[c] = "running"
WsCanRecv(c) == ws_pc[c] = "running" /\ Len(ws_sent[c]) < MaxWsSent

\* select!: session.terminated() => break
WsTerminated(c) ==
    /\ WsRunning(c)
    /\ terminated[ws_session[c]]
    /\ WsDrop(c, TRUE)
    /\ UNCHANGED <<sessions, metadata, shells, next_sid, next_uid, terminated,
                   update_queue, histVars, extVars, proxyVars, cliVars, ws_session, ws_uid, ws_sent, subscribed, pump>>

\* select!: broadcast_stream.next() => send, or fail when the receiver lagged.
WsBroadcast(c, ok) ==
    /\ WsRunning(c)
    /\ IF bcast[c].lagged
       THEN /\ WsDrop(c, TRUE)
            /\ ws_sent' = ws_sent
       ELSE /\ bcast[c].q # <<>>
            /\ IF ok
               THEN /\ ws_sent' = [ws_sent EXCEPT ![c] = Append(@, Head(bcast[c].q))]
                    /\ bcast' = [bcast EXCEPT ![c].q = Tail(@)]
                    /\ UNCHANGED <<ws_pc, chunks_rx, ws_pending, users>>
               ELSE /\ ws_sent' = ws_sent
                    /\ WsDrop(c, TRUE)
    /\ UNCHANGED <<sessions, metadata, shells, next_sid, next_uid, terminated,
                   update_queue, histVars, extVars, proxyVars, cliVars, ws_session, ws_uid,
                   subscribed, pump>>

\* select!: chunks_rx.recv() => send Chunks(id, seqnum, chunks)
\* The value of the shells topic: the open shells with their window sizes.
list_shells(n) ==
    {<<sid, shells[n][sid].winsize>> : sid \in {x \in Sids : shells[n][x].status = "open"}}

\* The Shells frames connection c has been sent, as positions of ws_sent[c].
ShellsFrames(c) == {i \in 1..Len(ws_sent[c]) : ws_sent[c][i].kind = "Shells"}

\* subscribe_shells: the stream yields the current list on subscription and again
\* whenever the list differs from the one it yielded last.
shells_stream_ready(c) ==
    IF ShellsFrames(c) = {} THEN TRUE
    ELSE LET last == CHOOSE i \in ShellsFrames(c) : \A j \in ShellsFrames(c) : j <= i
         IN  ws_sent[c][last].shells # list_shells(ws_session[c])

\* Main loop, shells_stream arm: send the list as a Shells frame.
WsShells(c, ok) ==
    /\ WsRunning(c)
    /\ shells_stream_ready(c)
    /\ WsSend(c, [kind |-> "Shells", shells |-> list_shells(ws_session[c])], ok)
    /\ UNCHANGED <<sessions, metadata, shells, next_sid, next_uid, terminated,
                   update_queue, histVars, extVars, proxyVars, cliVars, ws_session, ws_uid,
                   subscribed, pump>>

WsChunks(c, ok) ==
    /\ WsRunning(c)
    /\ chunks_rx[c] # <<>>
    /\ IF ok
       THEN /\ ws_sent' = [ws_sent EXCEPT ![c] = Append(@, Head(chunks_rx[c]))]
            /\ chunks_rx' = [chunks_rx EXCEPT ![c] = Tail(@)]
            /\ UNCHANGED <<ws_pc, ws_pending, users, bcast>>
       ELSE /\ ws_sent' = ws_sent
            /\ WsDrop(c, TRUE)
    /\ UNCHANGED <<sessions, metadata, shells, next_sid, next_uid, terminated,
                   update_queue, histVars, extVars, proxyVars, cliVars, ws_session, ws_uid,
                   subscribed, pump>>

\* select!: recv(socket) yields None => break
\* recv reads a binary frame that does not decode: from_reader(..)? makes
\* handle_socket return the error; nothing is sent, the connection ends.
WsRecvUnparseable(c) ==
    /\ WsRunning(c)
    /\ WsDrop(c, TRUE)
    /\ UNCHANGED <<sessions, metadata, shells, next_sid, next_uid, terminated,
                   update_queue, histVars, extVars, proxyVars, cliVars, ws_session, ws_uid, ws_sent,
                   subscribed, pump>>

WsRecvNone(c) ==
    /\ WsRunning(c)
    /\ WsDrop(c, TRUE)
    /\ UNCHANGED <<sessions, metadata, shells, next_sid, next_uid, terminated,
                   update_queue, histVars, extVars, proxyVars, cliVars, ws_session, ws_uid, ws_sent, subscribed, pump>>

\* Faulty variant of SetName: the mutator also makes the sender a writer.
WsSetName_grant(c, name) ==
    /\ WsCanRecv(c)
    /\ LET n == ws_session[c] IN
       IF name = "" THEN UNCHANGED <<users, bcast>>
       ELSE update_user(n, ws_uid[c],
                        [users[n][ws_uid[c]] EXCEPT !.name = name, !.can_write = TRUE])
    /\ UNCHANGED <<sessions, metadata, shells, next_sid, next_uid, terminated,
                   update_queue, histVars, extVars, proxyVars, cliVars, ws_pc, ws_session, ws_uid,
                   ws_sent, ws_pending, subscribed, chunks_rx, pump>>

\* WsClient::SetName(name): an empty name is ignored.
WsSetName(c, name) ==
    /\ WsCanRecv(c)
    /\ LET n == ws_session[c] IN
       IF name = "" THEN UNCHANGED <<users, bcast>>
       ELSE update_user(n, ws_uid[c], [users[n][ws_uid[c]] EXCEPT !.name = name])
    /\ UNCHANGED <<sessions, metadata, shells, next_sid, next_uid, terminated,
                   update_queue, histVars, extVars, proxyVars, cliVars, ws_pc, ws_session, ws_uid,
                   ws_sent, ws_pending, subscribed, chunks_rx, pump>>

\* WsClient::SetCursor(cursor)
WsSetCursor(c, cursor) ==
    /\ WsCanRecv(c)
    /\ LET n == ws_session[c] IN
       update_user(n, ws_uid[c], [users[n][ws_uid[c]] EXCEPT !.cursor = cursor])
    /\ UNCHANGED <<sessions, metadata, shells, next_sid, next_uid, terminated,
                   update_queue, histVars, extVars, proxyVars, cliVars, ws_pc, ws_session, ws_uid,
                   ws_sent, ws_pending, subscribed, chunks_rx, pump>>

\* WsClient::SetFocus(id)
WsSetFocus(c, id) ==
    /\ WsCanRecv(c)
    /\ LET n == ws_session[c] IN
       update_user(n, ws_uid[c], [users[n][ws_uid[c]] EXCEPT !.focus = id])
    /\ UNCHANGED <<sessions, metadata, shells, next_sid, next_uid, terminated,
                   update_queue, histVars, extVars, proxyVars, cliVars, ws_pc, ws_session, ws_uid,
                   ws_sent, ws_pending, subscribed, chunks_rx, pump>>

\* WsClient::Authenticate(_, _) in the main loop: the empty arm.
WsAuthenticateAgain(c, frame) ==
    /\ WsCanRecv(c)
    /\ frame.kind = "Authenticate"
    /\ UNCHANGED vars

PermissionError == [kind |-> "Error", text |-> "permission"]

\* WsClient::Create(x, y)
\* Faulty variant of Create: the shell is added at once, without the backend.
WsCreate_eager(c, x, y, ok) ==
    /\ WsCanRecv(c)
    /\ LET n == ws_session[c] IN
       /\ check_write_permission(n, ws_uid[c])
       /\ next_sid[n] \in Sids
       /\ next_sid' = [next_sid EXCEPT ![n] = @ + 1]
       /\ sid_log' = [sid_log EXCEPT ![n] = Append(@, next_sid[n])]
       /\ shells' = [shells EXCEPT ![n][next_sid[n]].status = "open"]
       /\ WsEnqueue(c, [kind |-> "CreateShell", id |-> next_sid[n], x |-> x, y |-> y])
    /\ UNCHANGED <<sessions, metadata, next_uid, terminated, uid_log, ws_sent,
                   chunks_rx, users, bcast,
                   last_ingest, proxyVars, extVars, cliVars, ws_session, ws_uid, subscribed, pump>>

WsCreate(c, x, y, ok) ==
    /\ WsCanRecv(c)
    /\ LET n == ws_session[c] IN
       IF ~check_write_permission(n, ws_uid[c])
       THEN /\ WsSend(c, PermissionError, ok)
            /\ UNCHANGED <<next_sid, sid_log, update_queue>>
       ELSE /\ next_sid[n] \in Sids
            /\ next_sid' = [next_sid EXCEPT ![n] = @ + 1]
            /\ sid_log' = [sid_log EXCEPT ![n] = Append(@, next_sid[n])]
            /\ WsEnqueue(c, [kind |-> "CreateShell", id |-> next_sid[n], x |-> x, y |-> y])
            /\ UNCHANGED <<ws_sent, chunks_rx, users, bcast>>
    /\ UNCHANGED <<sessions, metadata, shells, next_uid, terminated, uid_log,
                   last_ingest, proxyVars, extVars, cliVars, ws_session, ws_uid, subscribed, pump>>

\* Faulty variant of Close: the verb is forwarded without the permission check.
WsClose_open(c, sid, ok) ==
    /\ WsCanRecv(c)
    /\ WsEnqueue(c, [kind |-> "CloseShell", id |-> sid])
    /\ UNCHANGED <<ws_sent, chunks_rx, users, bcast>>
    /\ UNCHANGED <<sessions, metadata, shells, next_sid, next_uid, terminated,
                   histVars, extVars, proxyVars, cliVars, ws_session, ws_uid, subscribed, pump>>

\* WsClient::Close(id)
WsClose(c, sid, ok) ==
    /\ WsCanRecv(c)
    /\ IF ~check_write_permission(ws_session[c], ws_uid[c])
       THEN /\ WsSend(c, PermissionError, ok)
            /\ UNCHANGED update_queue
       ELSE /\ WsEnqueue(c, [kind |-> "CloseShell", id |-> sid])
            /\ UNCHANGED <<ws_sent, chunks_rx, users, bcast>>
    /\ UNCHANGED <<sessions, metadata, shells, next_sid, next_uid, terminated,
                   histVars, extVars, proxyVars, cliVars, ws_session, ws_uid, subscribed, pump>>

\* WsClient::Move(id, winsize)
WsMove(c, sid, winsize, ok) ==
    /\ WsCanRecv(c)
    /\ LET n == ws_session[c]
           r == move_shell(shells[n][sid], winsize)
       IN  IF ~check_write_permission(n, ws_uid[c])
           THEN /\ WsSend(c, PermissionError, ok)
                /\ UNCHANGED <<update_queue, shells>>
           ELSE IF ~r.ok
           THEN /\ WsSend(c, [kind |-> "Error", text |-> "move"], ok)
                /\ UNCHANGED <<update_queue, shells>>
           ELSE /\ shells' = [shells EXCEPT ![n][sid] = r.shell]
                /\ IF winsize # NoWinsize
                   THEN WsEnqueue(c, [kind |-> "Resize", id |-> sid,
                                      rows |-> winsize.rows, cols |-> winsize.cols])
                   ELSE UNCHANGED <<update_queue, ws_pc, ws_pending>>
                /\ UNCHANGED <<ws_sent, chunks_rx, users, bcast>>
    /\ UNCHANGED <<sessions, metadata, next_sid, next_uid, terminated,
                   histVars, extVars, proxyVars, cliVars, ws_session, ws_uid, subscribed, pump>>

\* WsClient::Data(id, data, offset)
WsData(c, sid, data, offset, ok) ==
    /\ WsCanRecv(c)
    /\ IF ~check_write_permission(ws_session[c], ws_uid[c])
       THEN /\ WsSend(c, PermissionError, ok)
            /\ UNCHANGED update_queue
       ELSE /\ WsEnqueue(c, [kind |-> "Input", id |-> sid, data |-> data,
                             offset |-> offset])
            /\ UNCHANGED <<ws_sent, chunks_rx, users, bcast>>
    /\ UNCHANGED <<sessions, metadata, shells, next_sid, next_uid, terminated,
                   histVars, extVars, proxyVars, cliVars, ws_session, ws_uid, subscribed, pump>>

\* update_tx.send(msg).await completes once the queue has capacity.
WsQueueReady(c) ==
    /\ ws_pc[c] = "await_queue"
    /\ Len(update_queue[ws_session[c]]) < MaxQueue
    /\ update_queue' = [update_queue EXCEPT ![ws_session[c]] = Append(@, ws_pending[c])]
    /\ ws_pending' = [ws_pending EXCEPT ![c] = NoMsg]
    /\ ws_pc' = [ws_pc EXCEPT ![c] = "running"]
    /\ UNCHANGED <<sessions, metadata, shells, users, next_sid, next_uid, terminated,
                   histVars, extVars, proxyVars, cliVars, ws_session, ws_uid, ws_sent,
                   subscribed, chunks_rx, pump, bcast>>

\* WsClient::Subscribe(id, chunknum)
\* Faulty variant of Subscribe: a repeated Subscribe starts the consumer anew.
WsSubscribe_again(c, sid, start) ==
    /\ WsCanRecv(c)
    /\ subscribed' = [subscribed EXCEPT ![c] = @ \cup {sid}]
    /\ pump' = [pump EXCEPT ![c][sid] = [NoPump EXCEPT !.st = "run", !.start = start]]
    /\ UNCHANGED <<sessVars, histVars, extVars, proxyVars, cliVars, ws_pc, ws_session, ws_uid, ws_sent,
                   ws_pending, chunks_rx, bcast>>

WsSubscribe(c, sid, start) ==
    /\ WsCanRecv(c)
    /\ IF sid \in subscribed[c]
       THEN UNCHANGED <<subscribed, pump>>
       ELSE /\ subscribed' = [subscribed EXCEPT ![c] = @ \cup {sid}]
            /\ pump' = [pump EXCEPT ![c][sid] = [NoPump EXCEPT !.st = "run", !.start = start]]
    /\ UNCHANGED <<sessVars, histVars, extVars, proxyVars, cliVars, ws_pc, ws_session, ws_uid, ws_sent,
                   ws_pending, chunks_rx, bcast>>

\* The pump task polls subscribe_chunks(id, chunknum): stream.next().await
PumpPoll(c, sid) ==
    /\ pump[c][sid].st = "run"
    /\ LET n == ws_session[c]
           sh == shells[n][sid]
           p == pump[c][sid]
           pos == IF p.pos = 0 THEN StartIndex(sh, p.start) ELSE p.pos
           len == IF pos = 0 THEN 0 ELSE BatchLen(sh.chunks, pos, 0, 0)
       IN  IF terminated[n]
           THEN pump' = [pump EXCEPT ![c][sid].st = "done"]
           ELSE IF len > 0
           THEN pump' = [pump EXCEPT ![c][sid] =
                    [st |-> "held", start |-> p.start, pos |-> pos + len,
                     held |-> [i \in 1..len |-> sh.chunks[pos + i - 1].data],
                     seqnum |-> sh.chunks[pos].offset]]
           ELSE /\ sh.status = "closed"
                /\ pump' = [pump EXCEPT ![c][sid].st = "done"]
    /\ UNCHANGED <<sessVars, histVars, extVars, proxyVars, cliVars, ws_pc, ws_session, ws_uid, ws_sent, ws_pending, subscribed, chunks_rx, bcast>>

\* Faulty variant of the pump's send: try_send, a batch that finds the channel full
\* is dropped and the pump goes on.
PumpSend_lossy(c, sid) ==
    /\ pump[c][sid].st = "held"
    /\ IF ws_pc[c] = "closed"
       THEN /\ pump' = [pump EXCEPT ![c][sid] = [@ EXCEPT !.st = "done", !.held = <<>>]]
            /\ chunks_rx' = chunks_rx
       ELSE /\ chunks_rx' = IF Len(chunks_rx[c]) < ChunksCap
                            THEN [chunks_rx EXCEPT ![c] = Append(@,
                                    [kind |-> "Chunks", sid |-> sid,
                                     seqnum |-> pump[c][sid].seqnum,
                                     chunks |-> pump[c][sid].held])]
                            ELSE chunks_rx
            /\ pump' = [pump EXCEPT ![c][sid] = [@ EXCEPT !.st = "run", !.held = <<>>]]
    /\ UNCHANGED <<sessVars, histVars, extVars, proxyVars, cliVars, ws_pc, ws_session, ws_uid, ws_sent, ws_pending, subscribed, bcast>>

\* Faulty variant of the pump's send: the frame carries the index of the batch's
\* first chunk where the byte-offset belongs.
PumpSend_index(c, sid) ==
    /\ pump[c][sid].st = "held"
    /\ IF ws_pc[c] = "closed"
       THEN /\ pump' = [pump EXCEPT ![c][sid] = [@ EXCEPT !.st = "done", !.held = <<>>]]
            /\ chunks_rx' = chunks_rx
       ELSE /\ Len(chunks_rx[c]) < ChunksCap
            /\ chunks_rx' = [chunks_rx EXCEPT ![c] = Append(@,
                   [kind |-> "Chunks", sid |-> sid,
                    seqnum |-> pump[c][sid].pos - Len(pump[c][sid].held) - 1,
                    chunks |-> pump[c][sid].held])]
            /\ pump' = [pump EXCEPT ![c][sid] = [@ EXCEPT !.st = "run", !.held = <<>>]]
    /\ UNCHANGED <<sessVars, histVars, extVars, proxyVars, cliVars, ws_pc, ws_session, ws_uid, ws_sent, ws_pending, subscribed, bcast>>

\* The pump task forwards the batch: chunks_tx.send((id, seqnum, chunks)).await
PumpSend(c, sid) ==
    /\ pump[c][sid].st = "held"
    /\ IF ws_pc[c] = "closed"
       THEN /\ pump' = [pump EXCEPT ![c][sid] = [@ EXCEPT !.st = "done", !.held = <<>>]]
            /\ chunks_rx' = chunks_rx
       ELSE /\ Len(chunks_rx[c]) < ChunksCap
            /\ chunks_rx' = [chunks_rx EXCEPT ![c] = Append(@,
                   [kind |-> "Chunks", sid |-> sid, seqnum |-> pump[c][sid].seqnum,
                    chunks |-> pump[c][sid].held])]
            /\ pump' = [pump EXCEPT ![c][sid] = [@ EXCEPT !.st = "run", !.held = <<>>]]
    /\ UNCHANGED <<sessVars, histVars, extVars, proxyVars, cliVars, ws_pc, ws_session, ws_uid, ws_sent, ws_pending, subscribed, bcast>>

(***************************************************************************)
(* Properties of subscriptions.                                            *)
(***************************************************************************)
\* The Chunks frames for shell sid in a sequence of frames.
ChunksFrames(fs, sid) == SelectSeq(fs, LAMBDA f : f.kind = "Chunks" /\ f.sid = sid)

RECURSIVE ConcatBatches(_)
ConcatBatches(fs) == IF fs = <<>> THEN <<>>
                     ELSE Head(fs).chunks \o ConcatBatches(Tail(fs))

RECURSIVE SumBytes(_)
SumBytes(ds) == IF ds = <<>> THEN 0 ELSE Len(Head(ds)) + SumBytes(Tail(ds))

\* The chunks connection c's client has received for shell sid, in delivery order.
Delivered(c, sid) == ConcatBatches(ChunksFrames(ws_sent[c], sid))

\* The chunks the subscription has yielded so far: delivered, in the channel, held.
Yielded(c, sid) ==
    Delivered(c, sid) \o ConcatBatches(ChunksFrames(chunks_rx[c], sid))
        \o pump[c][sid].held

\* len chunks of the shell from index k on.
ChunksFrom(sh, k, len) == [i \in 1..len |-> sh.chunks[k + i - 1].data]

SuffixOf(c, sid, got) ==
    LET sh == shells[ws_session[c]][sid]
        k0 == StartIndex(sh, pump[c][sid].start)
    IN  got # <<>> =>
            /\ k0 # 0
            /\ k0 + Len(got) - 1 <= Len(sh.chunks)
            /\ got = ChunksFrom(sh, k0, Len(got))

\* The subscription ended with the close of the shell and everything it yielded
\* has been sent to the client.
Drained(c, sid) ==
    /\ pump[c][sid].st = "done"
    /\ shells[ws_session[c]][sid].status = "closed"
    /\ ~terminated[ws_session[c]]
    /\ ws_pc[c] = "running"
    /\ ChunksFrames(chunks_rx[c], sid) = <<>>

C5_SeqnumIsOffset ==
    \A c \in WsConns, sid \in Sids :
        LET F == ChunksFrames(ws_sent[c], sid)
            sh == shells[ws_session[c]][sid]
        IN  \A i \in 1..Len(F) :
                /\ F[i].chunks # <<>>
                /\ \E j \in 1..Len(sh.chunks) :
                       /\ sh.chunks[j].offset = F[i].seqnum
                       /\ sh.chunks[j].data = F[i].chunks[1]
                /\ i < Len(F) => F[i + 1].seqnum = F[i].seqnum + SumBytes(F[i].chunks)

\* A subscriber has received two frames for one shell; the first carries a chunk of
\* two bytes, so the second starts at byte 2 or later.
C5_Witness ==
    \E c \in WsConns, sid \in Sids :
        LET F == ChunksFrames(ws_sent[c], sid)
        IN  Len(F) >= 2 /\ F[2].seqnum >= 2 /\ Len(F[1].chunks[1]) = 2

(***************************************************************************)
(* Properties of the frontend handshake and of the write verbs.            *)
(***************************************************************************)
StrictlyIncreasing(log) == \A i \in 1..Len(log), j \in 1..Len(log) : i < j => log[i] < log[j]

\* C6: within a session the uids next_uid has returned are strictly increasing in the
\* order of issue, and so are the sids next_sid has returned; connections that were
\* given a uid hold different uids, whether or not their authentication succeeded.
C6_MonotonicIds ==
    /\ \A n \in Names : StrictlyIncreasing(uid_log[n]) /\ StrictlyIncreasing(sid_log[n])
    /\ \A c \in WsConns, d \in WsConns :
           (c # d /\ ws_uid[c] # 0 /\ ws_uid[d] # 0 /\ ws_session[c] = ws_session[d])
               => ws_uid[c] # ws_uid[d]

\* A connection failed its authentication and a later one of the same session runs
\* with a greater uid; two sids have been issued.
C6_Witness ==
    \E c \in WsConns, d \in WsConns :
        /\ ws_pc[c] = "closed" /\ ws_sent[c] # <<>>
        /\ ws_sent[c][Len(ws_sent[c])] = WsFrame("InvalidAuth")
        /\ ws_pc[d] = "running"
        /\ ws_session[c] = ws_session[d]
        /\ ws_uid[d] > ws_uid[c]
        /\ Len(sid_log[ws_session[d]]) = 2

\* The step in which connection c's first frame is handled and rejected.
RejectStep(c, frame) ==
    /\ WsAuthenticate(c, frame, TRUE)
    /\ frame.kind # "Undecodable"
    /\ \/ frame.kind # "Authenticate"
       \/ frame.witness # metadata[ws_session[c]].encrypted_zeros
       \/ /\ frame.write # "none"
          /\ metadata[ws_session[c]].write_password_hash # "none"
          /\ frame.write # metadata[ws_session[c]].write_password_hash

\* C7: when the first frame after Hello is not Authenticate, or its witness differs
\* from encrypted_zeros, or its write witness differs from the stored hash, the relay
\* sends InvalidAuth and closes the channel, and the session is as before: its users,
\* shells, counters, backend queue and every broadcast receiver are unchanged.
C7_FailedHandshake ==
    [][\A c \in WsConns, frame \in FirstFrames :
          RejectStep(c, frame) =>
              /\ ws_sent'[c] = Append(ws_sent[c], WsFrame("InvalidAuth"))
              /\ ws_pc'[c] = "closed"
              /\ UNCHANGED <<sessions, metadata, shells, users, next_sid, next_uid,
                             terminated, update_queue, bcast>>]_vars

\* A connection was rejected while another user of the session was listening.
C7_Witness ==
    \E c \in WsConns, d \in WsConns :
        /\ ws_pc[c] = "closed" /\ ws_sent[c] # <<>>
        /\ ws_sent[c][Len(ws_sent[c])] = WsFrame("InvalidAuth")
        /\ ws_session[c] = ws_session[d]
        /\ ws_uid[d] < ws_uid[c]
        /\ ws_pc[d] = "running" /\ bcast[d].on

\* The step in which connection c's Authenticate frame with the right witness is handled.
MatchStep(c, frame) ==
    /\ WsAuthenticate(c, frame, TRUE)
    /\ frame.kind = "Authenticate"
    /\ frame.witness = metadata[ws_session[c]].encrypted_zeros

Joined(c, can_write) ==
    /\ ws_pc'[c] = "authed"
    /\ users'[ws_session[c]][ws_uid[c]].present
    /\ users'[ws_session[c]][ws_uid[c]].can_write = can_write

Rejected(c) ==
    /\ ws_pc'[c] = "closed"
    /\ ws_sent'[c] = Append(ws_sent[c], WsFrame("InvalidAuth"))
    /\ ~users'[ws_session[c]][ws_uid[c]].present

\* C8: after a matching witness the joining user can write when the session stores no
\* write_password_hash, cannot when a hash is stored and no write witness is sent, can
\* when the write witness equals the hash, and is rejected with InvalidAuth when the
\* write witness differs from the hash.
C8_WriteGate ==
    [][\A c \in WsConns, frame \in FirstFrames :
          MatchStep(c, frame) =>
              LET hash == metadata[ws_session[c]].write_password_hash
              IN  IF hash = "none" THEN Joined(c, TRUE)
                  ELSE IF frame.write = "none" THEN Joined(c, FALSE)
                  ELSE IF frame.write = hash THEN Joined(c, TRUE)
                  ELSE Rejected(c)]_vars

\* A session with a stored hash has a reader next to a writer.
C8_Witness ==
    \E c \in WsConns, d \in WsConns :
        /\ ws_pc[c] = "running" /\ ws_pc[d] = "running"
        /\ ws_session[c] = ws_session[d]
        /\ metadata[ws_session[c]].write_password_hash # "none"
        /\ users[ws_session[c]][ws_uid[c]].can_write
        /\ ~users[ws_session[d]][ws_uid[d]].can_write
        /\ users[ws_session[d]][ws_uid[d]].present

\* The write verbs connection c can send.
WriteVerb(c) ==
    \/ WsCreate(c, 0, 0, TRUE)
    \/ \E sid \in Sids : WsClose(c, sid, TRUE)
    \/ \E sid \in Sids, w \in {NoWinsize, OtherWinsize} : WsMove(c, sid, w, TRUE)
    \/ \E sid \in Sids : WsData(c, sid, <<0>>, 0, TRUE)

\* C9: a Create, Close, Move or Data verb from a connection whose user cannot write is
\* answered with an Error frame and has no other effect: no sid is allocated, nothing
\* is enqueued for the backend, no shell changes, and the channel keeps running.
C9_PermissionDenied ==
    [][\A c \in WsConns :
          (WriteVerb(c) /\ ~check_write_permission(ws_session[c], ws_uid[c])) =>
              /\ ws_sent'[c] = Append(ws_sent[c], PermissionError)
              /\ ws_pc'[c] = "running"
              /\ UNCHANGED <<next_sid, sid_log, update_queue, shells, ws_pending>>]_vars

\* A reader has been refused twice and still runs, in a session that has an open
\* shell and a non-empty backend queue.
C9_Witness ==
    \E c \in WsConns :
        /\ ws_pc[c] = "running"
        /\ ~check_write_permission(ws_session[c], ws_uid[c])
        /\ Len(SelectSeq(ws_sent[c], LAMBDA f : f = PermissionError)) >= 2
        /\ update_queue[ws_session[c]] # <<>>
        /\ \E sid \in Sids : shells[ws_session[c]][sid].status = "open"

(***************************************************************************)
(* Properties of the host-agent channel.                                   *)
(***************************************************************************)
\* A step in which connection k's Data, CreatedShell or ClosedShell message is handled.
ShellMessage(k) ==
    \E id \in ReqIds, sid \in Sids :
        \/ \E data \in DataSet, seq \in Seqs : CliTerminalData(k, id, sid, data, seq, TRUE)
        \/ CliCreatedShell(k, id, sid, 0, 0, TRUE)
        \/ CliClosedShell(k, id, sid, TRUE)

\* Session n's shells and the receivers of its broadcast bus are as before the step.
Untouched(n) ==
    /\ shells'[n] = shells[n]
    /\ \A c \in WsConns : ws_session[c] = n => bcast'[c] = bcast[c]

\* C10: a host-agent connection gets an active session only in a StartChannel step,
\* and a StartChannel whose token does not verify for the name is answered with
\* "invalid token" and attaches nothing; the connection's Data, CreatedShell,
\* ClosedShell and Pong messages leave every session it is not attached to untouched
\* (shells, chunks, broadcast bus), and without an active session the first three are
\* answered with the error "no active session".
C10_AttachedIngest ==
    [][\A k \in CliConns :
          /\ (active_session'[k] # active_session[k] /\ active_session'[k] # NoSession)
                 => \E id \in ReqIds, token \in Tokens :
                        CliStartChannel(k, id, active_session'[k], token, TRUE)
          /\ \A id \in ReqIds, n \in Names, token \in Tokens :
                 \/ /\ active_session'[k] = active_session[k]
                    /\ cli_resp'[k] = CliError(id, "invalid token")
                 \/ validate_token(n, token)
                 \/ ~CliStartChannel(k, id, n, token, TRUE)
          /\ \/ \A n \in Names : n # active_session[k] => Untouched(n)
             \/ ~(ShellMessage(k) \/ CliPong(k))
          /\ \/ cli_resp'[k].kind = "Error" /\ cli_resp'[k].text = "no active session"
             \/ active_session[k] # NoSession
             \/ ~ShellMessage(k)]_vars

\* The connection is attached to one of two sessions and has fed a shell of it; the
\* other session has a frontend listening and holds no shell.
C10_Witness ==
    \E k \in CliConns, n \in sessions, m \in sessions :
        /\ n # m
        /\ active_session[k] = n
        /\ \E sid \in Sids : shells[n][sid].chunks # <<>>
        /\ \A sid \in Sids : shells[m][sid] = NoShell
        /\ \E c \in WsConns : ws_session[c] = m /\ bcast[c].on

Init ==
    /\ sessions = {}
    /\ metadata = [n \in AllNames |-> NoMetadata]
    /\ shells = [n \in AllNames |-> [s \in Sids |-> NoShell]]
    /\ users = [n \in AllNames |-> [u \in Uids |-> NoUser]]
    /\ next_sid = [n \in AllNames |-> 1]
    /\ next_uid = [n \in AllNames |-> 1]
    /\ terminated = [n \in AllNames |-> FALSE]
    /\ update_queue = [n \in AllNames |-> <<>>]
    /\ uid_log = [n \in AllNames |-> <<>>]
    /\ sid_log = [n \in AllNames |-> <<>>]
    /\ last_ingest = [case |-> "none", tick |-> 0]
    /\ client_in = [c \in WsConns |-> <<>>]
    /\ upstream_in = [c \in WsConns |-> <<>>]
    /\ upstream_sent = [c \in WsConns |-> <<>>]
    /\ cli_pc = [k \in CliConns |-> "idle"]
    /\ active_session = [k \in CliConns |-> NoSession]
    /\ cli_resp = [k \in CliConns |-> NoResp]
    /\ cli_sent = [k \in CliConns |-> <<>>]
    /\ opening = [k \in CliConns |-> NoOpen]
    /\ cli_rx = [k \in CliConns |-> <<>>]
    /\ stream_task = [k \in CliConns |-> NoSession]
    /\ ws_pc = [c \in WsConns |-> "idle"]
    /\ ws_session = [c \in WsConns |-> NoSession]
    /\ ws_uid = [c \in WsConns |-> 0]
    /\ ws_sent = [c \in WsConns |-> <<>>]
    /\ ws_pending = [c \in WsConns |-> NoMsg]
    /\ subscribed = [c \in WsConns |-> {}]
    /\ chunks_rx = [c \in WsConns |-> <<>>]
    /\ pump = [c \in WsConns |-> [s \in Sids |-> NoPump]]
    /\ bcast = [c \in WsConns |-> NoBcast]
    /\ dashboards = [d \in DashKeys |-> NoDashboard]
    /\ session_metadata = [n \in AllNames |-> NoSessionMetadata]
    /\ dash_resp = NoDashResp
    /\ cleanup_passes = 0
    /\ now = 0
    /\ last_accessed = [n \in AllNames |-> 0]
    /\ pending_requests = {}
    /\ next_request_id = 0
    /\ call = [pc |-> "idle", id |-> "none", message |-> "none", result |-> "none",
               response |-> "none"]
    /\ tr_out = <<>>
    /\ tr_in = <<>>
    /\ server_rx = <<>>
    /\ reader = "running"
    /\ conn = [pc |-> "start", grpc |-> "untried", ws |-> "untried",
               method |-> "none", error |-> <<>>]
    /\ ESCAPE_STATE = "Normal"
    /\ stdin = <<>>
    /\ session_loop = "running"
    /\ client = [pc |-> "start", auth |-> [kind |-> "none"], read |-> 0,
                 user_id |-> 0, can_write |-> FALSE, chunk_counter |-> 0,
                 sent |-> <<>>, error |-> "none"]

GoodFrame == [kind |-> "Authenticate", witness |-> "z1", write |-> "h1"]

(***************************************************************************)
(* Ingest: one host agent drives the shells a writer asked for.            *)
(***************************************************************************)
NextIngest ==
    \/ \E k \in FirstCli : CliConnect(k)
    \/ \E k \in FirstCli, id \in ReqIds :
        \/ CliOpenSession(k, id, "o", "n1", "z1", "none", TRUE)
        \/ CliStartChannel(k, id, "n1", Base64Encode(Hmac(ServerSecret, "n1")), TRUE)
        \/ \E sid \in Sids, data \in DataSet, seq \in Seqs :
               CliTerminalData(k, id, sid, data, seq, TRUE)
        \/ \E sid \in Sids : CliCreatedShell(k, id, sid, 0, 0, TRUE)
        \/ \E sid \in Sids : CliClosedShell(k, id, sid, TRUE)
    \/ WsConnect("c1", "n1", TRUE)
    \/ WsAuthenticate("c1", GoodFrame, TRUE)
    \/ WsUsers("c1", TRUE)
    \/ WsCreate("c1", 0, 0, TRUE)

SpecIngest == Init /\ [][NextIngest]_vars

\* Subscriptions: a frontend subscribes to a shell, from any start, while the host
\* agent feeds the shell in order and closes it.
NextSub ==
    \/ \E k \in FirstCli : CliConnect(k)
    \/ \E k \in FirstCli, id \in ReqIds :
        \/ CliOpenSession(k, id, "o", "n1", "z1", "none", TRUE)
        \/ CliStartChannel(k, id, "n1", Base64Encode(Hmac(ServerSecret, "n1")), TRUE)
        \/ \E data \in DataSet \ {<<>>} :
               CliTerminalData(k, id, 1, data, shells["n1"][1].byte_total, TRUE)
        \/ CliCreatedShell(k, id, 1, 0, 0, TRUE)
        \/ CliClosedShell(k, id, 1, TRUE)
    \/ WsConnect("c1", "n1", TRUE)
    \/ WsAuthenticate("c1", GoodFrame, TRUE)
    \/ WsUsers("c1", TRUE)
    \/ WsCreate("c1", 0, 0, TRUE)
    \/ \E start \in Seqs : WsSubscribe("c1", 1, start)
    \/ PumpPoll("c1", 1)
    \/ PumpSend("c1", 1)
    \/ WsChunks("c1", TRUE)

SpecSub == Init /\ [][NextSub]_vars

\* Frontends: connection c1 knows the passwords and asks for shells, c2 shakes hands
\* with any first frame and sends every write verb, in a session opened with or
\* without a write password.
NextFront ==
    \/ \E k \in FirstCli : CliConnect(k)
    \/ \E k \in FirstCli, id \in ReqIds :
        \/ \E hash \in {"none", "h1"} :
               CliOpenSession(k, id, "o", "n1", "z1", hash, TRUE)
        \/ CliStartChannel(k, id, "n1", Base64Encode(Hmac(ServerSecret, "n1")), TRUE)
        \/ CliCreatedShell(k, id, 1, 0, 0, TRUE)
    \/ WsAuthenticate("c1", GoodFrame, TRUE)
    \/ \E frame \in FirstFrames : WsAuthenticate("c2", frame, TRUE)
    \/ \E c \in WsConns : WsConnect(c, "n1", TRUE) \/ WsCreate(c, 0, 0, TRUE)
    \/ \E c \in WsConns : WsUsers(c, TRUE)
    \/ WsClose("c2", 1, TRUE)
    \/ WsMove("c2", 1, OtherWinsize, TRUE)
    \/ WsData("c2", 1, <<0>>, 0, TRUE)

SpecFront == Init /\ [][NextFront]_vars

\* Attach: the host agent opens two sessions, presents any token for either name and
\* sends shell messages and pongs; each session has a frontend, the first asks for shells.
NextAttach ==
    \/ \E k \in FirstCli : CliConnect(k) \/ CliPong(k)
    \/ \E k \in FirstCli, id \in ReqIds :
        \/ \E n \in Names : CliOpenSession(k, id, "o", n, "z1", "none", TRUE)
        \/ \E n \in Names, token \in Tokens : CliStartChannel(k, id, n, token, TRUE)
        \/ CliTerminalData(k, id, 1, <<0>>, 0, TRUE)
        \/ CliCreatedShell(k, id, 1, 0, 0, TRUE)
        \/ CliClosedShell(k, id, 1, TRUE)
    \/ WsConnect("c1", "n1", TRUE) \/ WsConnect("c2", "n2", TRUE)
    \/ \E c \in WsConns : WsAuthenticate(c, GoodFrame, TRUE)
    \/ \E c \in WsConns : WsUsers(c, TRUE)
    \/ WsCreate("c1", 0, 0, TRUE)

SpecAttach == Init /\ [][NextAttach]_vars

(***************************************************************************)
(* Tokens: the host agent opens sessions and presents any token, to attach *)
(* and to close, while a frontend asks for shells and the streaming task   *)
(* forwards them.                                                          *)
(***************************************************************************)
NextToken ==
    \/ \E k \in FirstCli : CliConnect(k) \/ CliStreamUpdate(k) \/ CliStreamTerminated(k)
    \/ \E k \in FirstCli : CliForward(k, TRUE)
    \/ \E k \in FirstCli, id \in ReqIds :
        \/ \E n \in Names : CliOpenSession(k, id, "o", n, "z1", "none", TRUE)
        \/ \E n \in Names, token \in Tokens : CliStartChannel(k, id, n, token, TRUE)
        \/ \E n \in Names, token \in Tokens : CliCloseSession(k, id, n, token, TRUE)
    \/ WsConnect("c1", "n1", TRUE)
    \/ WsAuthenticate("c1", GoodFrame, TRUE)
    \/ WsUsers("c1", TRUE)
    \/ WsCreate("c1", 0, 0, TRUE)
    \/ WsTerminated("c1")

SpecToken == Init /\ [][NextToken]_vars

\* A CloseSession or StartChannel step of connection k with a token that does not
\* verify for the name it is presented with.
BadTokenStep(k, id, n, token) ==
    /\ ~validate_token(n, token)
    /\ \/ CliCloseSession(k, id, n, token, TRUE)
       \/ CliStartChannel(k, id, n, token, TRUE)

\* C11: a CloseSession or StartChannel whose token is not base64(HMAC(server_secret,
\* name)) is answered with the error "invalid token" and changes nothing: no session
\* is terminated or removed, no backend is attached, no streaming task is started or
\* stopped, and the channel of an attached backend and every frontend are as before.
C11_InvalidToken ==
    [][\A k \in CliConns, id \in ReqIds, n \in Names, token \in Tokens :
          \/ /\ cli_resp'[k] = CliError(id, "invalid token")
             /\ UNCHANGED <<sessVars, wsVars, cli_pc, active_session, stream_task,
                            cli_rx, cli_sent>>
          \/ ~BadTokenStep(k, id, n, token)]_vars

\* A request with a bad token was just refused on a connection whose backend is
\* attached to a live session, with its streaming task running and an update waiting.
C11_Witness ==
    \E k \in CliConns :
        /\ cli_resp[k].kind = "Error" /\ cli_resp[k].text = "invalid token"
        /\ active_session[k] \in sessions
        /\ stream_task[k] = active_session[k]
        /\ ~terminated[active_session[k]]
        /\ cli_rx[k] # <<>>

ValidToken(n) == Base64Encode(Hmac(ServerSecret, n))

NextPresence ==
    \/ \E k \in FirstCli : CliConnect(k)
    \/ \E k \in FirstCli, id \in ReqIds :
        \/ CliOpenSession(k, id, "o", "n1", "z1", "h1", TRUE)
        \/ CliCloseSession(k, id, "n1", ValidToken("n1"), TRUE)
    \/ \E c \in WsConns :
        \/ WsConnect(c, "n1", TRUE)
        \/ \E p \in {"none", "h1"} :
               WsAuthenticate(c, [GoodFrame EXCEPT !.write = p], TRUE)
        \/ \E ok \in BOOLEAN : WsUsers(c, ok) \/ WsBroadcast(c, ok)
        \/ \E name \in {"", "a"} :
               /\ WsRunning(c)
               /\ users["n1"][ws_uid[c]].name = "user"
               /\ WsSetName(c, name)
        \/ WsRecvNone(c)
        \/ WsTerminated(c)

SpecPresence == Init /\ [][NextPresence]_vars

\* The roster a Users frame carries, as a map from uid to user.
RosterOf(snapshot) ==
    [u \in Uids |-> IF \E p \in snapshot : p[1] = u
                    THEN (CHOOSE p \in snapshot : p[1] = u)[2] ELSE NoUser]

\* The roster after the UserDiff frames of fs are applied to r, in order.
RECURSIVE ApplyDiffs(_, _)
ApplyDiffs(r, fs) ==
    IF fs = <<>> THEN r
    ELSE ApplyDiffs(IF Head(fs).kind = "UserDiff"
                    THEN [r EXCEPT ![Head(fs).uid] = Head(fs).user] ELSE r, Tail(fs))

\* The position of the first Users frame among the frames sent to c; 0 when none.
UsersAt(c) ==
    LET at == {i \in 1..Len(ws_sent[c]) : ws_sent[c][i].kind = "Users"}
    IN  IF at = {} THEN 0 ELSE CHOOSE i \in at : \A j \in at : i <= j

\* The roster c's client holds: the snapshot with every UserDiff received after it.
Reconstructed(c) ==
    ApplyDiffs(RosterOf(ws_sent[c][UsersAt(c)].users),
               SubSeq(ws_sent[c], UsersAt(c) + 1, Len(ws_sent[c])))

\* The uids present in a roster.
Present(r) == {u \in Uids : r[u].present}

\* c is past its handshake and in its main loop.
InLoop(c) == ws_pc[c] \in {"running", "await_queue"}

\* c was sent exactly one Users frame, and no UserDiff before it.
OneSnapshotFirst(c) ==
    /\ Len(SelectSeq(ws_sent[c], LAMBDA f : f.kind = "Users")) = 1
    /\ \A i \in 1..Len(ws_sent[c]) :
           ws_sent[c][i].kind = "UserDiff" => UsersAt(c) < i

\* C13 (as stated): every frontend in its main loop has received exactly one Users
\* snapshot, before any UserDiff, and the roster it reconstructs from the snapshot
\* and the UserDiffs received so far is the set of the users present at that moment.
C13_AsStated ==
    \A c \in WsConns :
        InLoop(c) => /\ OneSnapshotFirst(c)
                     /\ Present(Reconstructed(c)) = Present(users[ws_session[c]])

\* C13 (amended): every frontend in its main loop has received exactly one Users
\* snapshot, before any UserDiff, and the roster it reconstructs from the snapshot
\* and the UserDiffs received so far, with the UserDiffs still waiting in its
\* broadcast receiver applied in order, is the set of the users present; so the
\* reconstructed roster is the present one whenever the receiver is empty. A
\* receiver that lagged delivers nothing more: the connection closes.
C13_PresenceUnion ==
    \A c \in WsConns :
        InLoop(c) =>
            /\ OneSnapshotFirst(c)
            /\ ~bcast[c].lagged =>
                   ApplyDiffs(Reconstructed(c), bcast[c].q) = users[ws_session[c]]

\* A frontend whose snapshot already held another user has then received that
\* user's join diff and its rename, and its receiver is empty: the other user joined
\* between this frontend's subscribe_broadcast and its snapshot.
C13_Witness ==
    \E c \in WsConns, d \in WsConns :
        /\ c # d /\ InLoop(c) /\ bcast[c].q = <<>> /\ ~bcast[c].lagged
        /\ ws_uid[d] \in Uids
        /\ RosterOf(ws_sent[c][UsersAt(c)].users)[ws_uid[d]].present
        /\ \E i \in 1..Len(ws_sent[c]), j \in 1..Len(ws_sent[c]) :
               /\ i < j
               /\ ws_sent[c][i] = UserDiff(ws_uid[d], NewUser(TRUE))
               /\ ws_sent[c][j].kind = "UserDiff" /\ ws_sent[c][j].user.name = "a"
        /\ users[ws_session[c]][ws_uid[d]].name = "a"

\* c completed its authentication and has not ended.
Live(c) == ws_pc[c] \in {"authed", "running", "await_queue"}

\* The roster of every session holds exactly the uids of its live connections.
RosterExact ==
    \A n \in Names, u \in Uids :
        users[n][u].present <=>
            \E c \in WsConns : ws_session[c] = n /\ ws_uid[c] = u /\ Live(c)

\* A step that ends a live connection removes its user and hands the absent diff to
\* every other receiver of the session (a receiver that is full lags instead).
LeaveStep ==
    \A c \in WsConns :
        (Live(c) /\ ws_pc'[c] = "closed") =>
            /\ ~users'[ws_session[c]][ws_uid[c]].present
            /\ ~bcast'[c].on
            /\ \A d \in WsConns \ {c} :
                   (bcast[d].on /\ bcast'[d].on /\ ws_session[d] = ws_session[c]) =>
                       \/ bcast'[d].lagged
                       \/ bcast'[d].q = Append(bcast[d].q, UserDiff(ws_uid[c], NoUser))

\* C14: whenever the connection of an authenticated frontend ends (the socket ends, a
\* send fails, its broadcast receiver lagged, the session is terminated), its uid is
\* removed from the roster and UserDiff(uid, absent) is emitted to the session's
\* other receivers; in every state the roster holds exactly the uids of the
\* connections that completed authentication and have not ended.
C14_PresenceEnds == []RosterExact /\ [][LeaveStep]_vars

\* After the session was closed one frontend has ended, and the other, still in its
\* loop and alone in the roster, has forwarded the absent diff to its client.
C14_Witness ==
    \E c \in WsConns, d \in WsConns :
        /\ ws_pc[c] = "closed" /\ ws_uid[c] \in Uids /\ InLoop(d)
        /\ ws_session[c] = ws_session[d] /\ terminated[ws_session[d]]
        /\ Present(users[ws_session[d]]) = {ws_uid[d]}
        /\ \E i \in 1..Len(ws_sent[d]) : ws_sent[d][i] = UserDiff(ws_uid[c], NoUser)

(***************************************************************************)
(* Termination: a writer fills the backend queue while the host agent is   *)
(* attached or not, and the session is closed. The fair specification      *)
(* lets every branch of a select! that stays ready be taken eventually,    *)
(* and every send that has capacity complete.                              *)
(***************************************************************************)
\* The messages in flight to the host agents and written to them.
InFlight(n) ==
    Len(update_queue[n])
        + SumOver([k \in CliConns |-> Len(cli_rx[k]) + Len(cli_sent[k])], CliConns)

NextTerm ==
    \/ \E k \in FirstCli : CliConnect(k) \/ CliStreamUpdate(k) \/ CliStreamTerminated(k)
    \/ \E k \in FirstCli : CliForward(k, TRUE)
    \/ \E k \in FirstCli, id \in ReqIds :
        \/ CliOpenSession(k, id, "o", "n1", "z1", "none", TRUE)
        \/ CliStartChannel(k, id, "n1", ValidToken("n1"), TRUE)
        \/ CliCloseSession(k, id, "n1", ValidToken("n1"), TRUE)
    \/ \E c \in WsConns :
        \/ WsConnect(c, "n1", TRUE)
        \/ WsAuthenticate(c, GoodFrame, TRUE)
        \/ WsUsers(c, TRUE)
        \/ WsQueueReady(c)
        \/ WsTerminated(c)
    \/ InFlight("n1") < MaxCliSent /\ WsCreate("c1", 0, 0, TRUE)
    \/ InFlight("n1") < MaxCliSent /\ WsClose("c1", 1, TRUE)

SpecTerm == Init /\ [][NextTerm]_vars

FairTerm ==
    /\ \A c \in WsConns : WF_vars(WsTerminated(c)) /\ WF_vars(WsQueueReady(c))
    /\ \A k \in CliConns :
           /\ WF_vars(CliStreamTerminated(k))
           /\ WF_vars(CliStreamUpdate(k))
           /\ WF_vars(CliForward(k, TRUE))

SpecTermFair == SpecTerm /\ FairTerm

\* C15 (as stated): once terminated is set, every frontend connection of the session
\* that is in its main loop, waiting in select! or awaiting capacity on the backend
\* queue, eventually closes, and every streaming task of the session eventually ends.
C15_AsStated ==
    /\ \A c \in WsConns :
           (InLoop(c) /\ terminated[ws_session[c]]) ~> (ws_pc[c] = "closed")
    /\ \A k \in CliConns :
           (stream_task[k] # NoSession /\ terminated[stream_task[k]])
               ~> (stream_task[k] = NoSession)

\* The session is closed, its streaming task has ended, the backend queue is full
\* and a frontend still awaits capacity on it.
C15_Witness ==
    \E c \in WsConns :
        /\ ws_pc[c] = "await_queue"
        /\ terminated[ws_session[c]]
        /\ Len(update_queue[ws_session[c]]) = MaxQueue
        /\ \A k \in CliConns : stream_task[k] = NoSession
        /\ \E k \in CliConns : cli_sent[k] # <<>>

(***************************************************************************)
(* Closing: sends fail, sockets end, tokens are wrong, data arrives with a *)
(* gap, frontends are rejected; the session ends on CloseSession with the  *)
(* valid token or by the idle reaper.                                      *)
(***************************************************************************)
BadToken(n) == [b64 |-> TRUE, bytes |-> Hmac("other", n)]

NextClose ==
    \/ \E k \in FirstCli : CliConnect(k) \/ CliRecvNone(k) \/ CliStreamUpdate(k)
    \/ \E k \in FirstCli : CliStreamTerminated(k)
    \/ \E k \in FirstCli, ok \in BOOLEAN : CliForward(k, ok)
    \/ \E k \in FirstCli, id \in ReqIds :
        \/ CliOpenSession(k, id, "o", "n1", "z1", "none", TRUE)
        \/ CliStartChannel(k, id, "n1", ValidToken("n1"), TRUE)
        \/ \E token \in {ValidToken("n1"), BadToken("n1")} :
               CliCloseSession(k, id, "n1", token, TRUE)
        \/ /\ active_session[k] # NoSession
           /\ shells["n1"][1].status = "open" /\ shells["n1"][1].chunks = <<>>
           /\ CliTerminalData(k, id, 1, <<0>>, 0, TRUE)
        \/ CliCreatedShell(k, id, 1, 0, 0, TRUE)
    \/ \E n \in Names : IdleReaper(n)
    \/ \E c \in WsConns : WsConnect(c, "n1", TRUE) \/ WsTerminated(c)
    \/ WsAuthenticate("c1", GoodFrame, TRUE)
    \/ WsUsers("c1", TRUE)
    \/ WsCreate("c1", 0, 0, TRUE)
    \/ \E w \in {"z1", "z2"} :
           WsAuthenticate("c2", [GoodFrame EXCEPT !.witness = w], TRUE)
    \/ \E ok \in BOOLEAN : WsUsers("c2", ok)
    \/ WsRecvNone("c2")

SpecClose == Init /\ [][NextClose]_vars

\* The step is a CloseSession of n with a token that verifies, or the reaper's.
ClosingStep(n) ==
    \/ IdleReaper(n)
    \/ \E k \in CliConns, id \in ReqIds, token \in Tokens, ok \in BOOLEAN :
           validate_token(n, token) /\ CliCloseSession(k, id, n, token, ok)

\* The step ends host-agent connection k, or frontend connection c.
CliEnds(k) == cli_pc[k] = "open" /\ cli_pc'[k] = "closed"
WsEnds(c) == ws_pc[c] \notin {"idle", "closed"} /\ ws_pc'[c] = "closed"

\* Host-agent connection k, or frontend connection c, is as before the step.
CliSame(k) ==
    /\ cli_pc'[k] = cli_pc[k] /\ active_session'[k] = active_session[k]
    /\ cli_rx'[k] = cli_rx[k] /\ cli_sent'[k] = cli_sent[k]
    /\ stream_task'[k] = stream_task[k] /\ cli_resp'[k] = cli_resp[k]
WsSame(c) ==
    /\ ws_pc'[c] = ws_pc[c] /\ ws_sent'[c] = ws_sent[c]
    /\ ws_pending'[c] = ws_pending[c] /\ chunks_rx'[c] = chunks_rx[c]
    /\ subscribed'[c] = subscribed[c] /\ bcast'[c].on = bcast[c].on

\* C16: terminated goes from false to true at most once and never back, and only in
\* a CloseSession step with a token that verifies or in a step of the idle reaper;
\* a step that ends a frontend or host-agent connection (a failed send, the end of
\* the socket, a rejected handshake) leaves terminated, the session map and every
\* other connection as they were, and one that ends a host-agent connection leaves
\* the shells with their chunks and the users as they were.
C16_OneShot ==
    [][/\ \A n \in Names :
              /\ terminated[n] => terminated'[n]
              /\ \/ terminated'[n] = terminated[n]
                 \/ ClosingStep(n)
       /\ \A k \in CliConns :
              \/ ~CliEnds(k)
              \/ \E n \in Names : ClosingStep(n)
              \/ /\ UNCHANGED <<terminated, sessions, shells, users, update_queue>>
                 /\ \A c \in WsConns : WsSame(c) /\ bcast'[c] = bcast[c]
                 /\ \A j \in CliConns \ {k} : CliSame(j)
       /\ \A c \in WsConns :
              \/ ~WsEnds(c)
              \/ /\ UNCHANGED <<terminated, sessions, shells, update_queue>>
                 /\ \A d \in WsConns \ {c} : WsSame(d)
                 /\ \A k \in CliConns : CliSame(k)]_vars

\* The host-agent connection has ended on an error while attached; the session is
\* neither closed nor removed, its shell keeps its chunk and a frontend is in its loop.
C16_Witness ==
    \E k \in CliConns, c \in WsConns :
        /\ cli_pc[k] = "closed" /\ ws_session[c] \in sessions
        /\ ~terminated[ws_session[c]] /\ InLoop(c)
        /\ users[ws_session[c]][ws_uid[c]].present
        /\ shells[ws_session[c]][1].status = "open"
        /\ shells[ws_session[c]][1].chunks # <<>>

(***************************************************************************)
(* Two host agents: both hold the name and the token of one session and    *)
(* attach to it, each on its own connection, while a writer asks for       *)
(* shells.                                                                 *)
(***************************************************************************)
NextBackends ==
    \/ \E k \in CliConns : CliConnect(k) \/ CliStreamUpdate(k) \/ CliRecvNone(k)
    \/ \E k \in CliConns : CliForward(k, TRUE)
    \/ \E id \in ReqIds : CliOpenSession("k1", id, "o", "n1", "z1", "none", TRUE)
    \/ \E k \in CliConns, id \in ReqIds :
           CliStartChannel(k, id, "n1", ValidToken("n1"), TRUE)
    \/ WsConnect("c1", "n1", TRUE)
    \/ WsAuthenticate("c1", GoodFrame, TRUE)
    \/ WsUsers("c1", TRUE)
    \/ WsCreate("c1", 0, 0, TRUE)
    \/ InFlight("n1") < MaxCliSent /\ WsData("c1", 1, <<0>>, 0, TRUE)
    \/ WsQueueReady("c1")

SpecBackends == Init /\ [][NextBackends]_vars

\* C17 (as stated): at most one backend is attached to a session: no two streaming
\* tasks, on the same or on different connections, serve the same session and
\* consume its update queue at the same time.
C17_AsStated ==
    \A k \in CliConns, j \in CliConns :
        (k # j /\ stream_task[k] # NoSession) => stream_task[j] # stream_task[k]

\* Two connections are attached to the same session with their streaming tasks
\* running, and each has been handed a part of the session's updates.
C17_Witness ==
    \E k \in CliConns, j \in CliConns :
        /\ k # j /\ cli_pc[k] = "open" /\ cli_pc[j] = "open"
        /\ stream_task[k] # NoSession /\ stream_task[j] = stream_task[k]
        /\ active_session[k] = stream_task[k] /\ active_session[j] = stream_task[k]
        /\ cli_sent[k] # <<>> /\ cli_sent[j] # <<>>

(***************************************************************************)
(* Streaming: host agents attach once each, their channels end on a closed *)
(* socket, a broken socket or a failed send, the session is closed, while  *)
(* a writer types and the timers of the streaming tasks tick.              *)
(***************************************************************************)
\* A timer tick of k's streaming task; while the connection is open the model lets
\* each timer fire once, into an empty channel.
StreamTick(k, kind) ==
    /\ \/ cli_pc[k] = "closed"
       \/ /\ cli_rx[k] = <<>> /\ InFlight("n1") < MaxCliSent
          /\ \A i \in 1..Len(cli_sent[k]) : cli_sent[k][i].msg.kind # kind
    /\ CliStreamTick(k, kind)

NextStream ==
    \/ \E k \in CliConns : CliConnect(k) \/ CliRecvNone(k) \/ CliRecvError(k)
    \/ \E k \in CliConns : CliStreamUpdate(k) \/ CliStreamTerminated(k)
    \/ \E k \in CliConns, kind \in {"Sync", "Ping"} : StreamTick(k, kind)
    \/ \E k \in CliConns, ok \in BOOLEAN : CliForward(k, ok)
    \/ \E id \in ReqIds :
        \/ CliOpenSession("k1", id, "o", "n1", "z1", "none", TRUE)
        \/ CliCloseSession("k1", id, "n1", ValidToken("n1"), TRUE)
    \/ \E k \in CliConns, id \in ReqIds :
           /\ active_session[k] = NoSession
           /\ CliStartChannel(k, id, "n1", ValidToken("n1"), TRUE)
    \/ WsConnect("c1", "n1", TRUE)
    \/ WsAuthenticate("c1", GoodFrame, TRUE)
    \/ WsUsers("c1", TRUE)
    \/ InFlight("n1") < MaxCliSent /\ WsData("c1", 1, <<0>>, 0, TRUE)
    \/ WsQueueReady("c1")

SpecStream == Init /\ [][NextStream]_vars

FairStream ==
    \A k \in CliConns :
        /\ WF_vars(StreamTick(k, "Ping"))
        /\ WF_vars(CliStreamTerminated(k))

SpecStreamFair == SpecStream /\ FairStream

\* The messages the channel of connection k has carried: written to the socket, then
\* waiting in the channel from the streaming task.
Carried(k) == [i \in 1..Len(cli_sent[k]) |-> cli_sent[k][i].msg] \o cli_rx[k]

\* The disconnect Error is nowhere but at the end of what the channel has carried.
ErrorLast(k) ==
    \A i \in 1..Len(Carried(k)) : Carried(k)[i] = DisconnectError => i = Len(Carried(k))

\* StartChannel with the valid token for a session of the map attaches it.
AttachSucceeds(k) ==
    \A id \in ReqIds, n \in Names :
        \/ /\ active_session'[k] = n /\ stream_task'[k] = n
           /\ cli_resp'[k] = CliReply(id, "StartChannel")
        \/ n \notin sessions
        \/ ~CliStartChannel(k, id, n, ValidToken(n), TRUE)

\* C18: when its session is closed, the streaming task of an attached backend sends
\* Error("disconnecting because session is closed") as its last message and stops:
\* no Sync, Ping or queued update follows it on that channel. When a backend's
\* connection ends for another reason (closed socket, broken socket, failed send)
\* its streaming task stops as well, at the latest on its next timer tick, and a
\* later StartChannel with the valid token attaches the session again.
C18_StreamEnds ==
    /\ [](\A k \in CliConns : ErrorLast(k))
    /\ [][\A k \in CliConns :
             /\ \/ /\ stream_task'[k] = NoSession
                    /\ cli_pc[k] = "open" =>
                           cli_rx'[k] = Append(cli_rx[k], DisconnectError)
                 \/ ~CliStreamTerminated(k)
             /\ AttachSucceeds(k)]_vars
    /\ \A k \in CliConns : (cli_pc[k] = "closed") ~> (stream_task[k] = NoSession)

\* A first backend's connection broke, its task has stopped, a second connection
\* attached to the same session afterwards, and on the close of the session it
\* was written a Ping and then the disconnect Error, which is the last message.
C18_Witness ==
    \E k \in CliConns, j \in CliConns :
        /\ cli_pc[k] = "closed" /\ stream_task[k] = NoSession
        /\ cli_pc[j] = "open" /\ stream_task[j] = NoSession
        /\ active_session[j] # NoSession /\ terminated[active_session[j]]
        /\ Len(cli_sent[j]) >= 2
        /\ cli_sent[j][Len(cli_sent[j])].msg = DisconnectError
        /\ cli_sent[j][1].msg.kind = "Ping"

\* Connection k is open and attached to session n, and its streaming task runs.
Attached(k, n) ==
    cli_pc[k] = "open" /\ active_session[k] = n /\ stream_task[k] = n

\* The backend queue of n changes only by an append at its end or the loss of its head.
QueueFifo(n) ==
    \/ update_queue'[n] = update_queue[n]
    \/ /\ Len(update_queue'[n]) = Len(update_queue[n]) + 1
       /\ SubSeq(update_queue'[n], 1, Len(update_queue[n])) = update_queue[n]
    \/ update_queue[n] # <<>> /\ update_queue'[n] = Tail(update_queue[n])

\* The channel of k changes only by an append at its end, by its head moving to the
\* socket, or by the end of the connection.
ChannelFifo(k) ==
    \/ cli_rx'[k] = cli_rx[k] /\ cli_sent'[k] = cli_sent[k]
    \/ /\ Len(cli_rx'[k]) = Len(cli_rx[k]) + 1 /\ cli_sent'[k] = cli_sent[k]
       /\ SubSeq(cli_rx'[k], 1, Len(cli_rx[k])) = cli_rx[k]
    \/ /\ cli_rx[k] # <<>> /\ cli_rx'[k] = Tail(cli_rx[k])
       /\ cli_sent'[k] = Append(cli_sent[k], convert_server_message_to_cli(Head(cli_rx[k])))
    \/ cli_pc'[k] = "closed" /\ cli_sent'[k] = cli_sent[k]

\* A message leaves the queue of n while a backend is and stays attached to n.
TakenWhileAttached(n) ==
    /\ update_queue[n] # <<>> /\ update_queue'[n] = Tail(update_queue[n])
    /\ \E j \in CliConns :
          /\ Attached(j, n)
          /\ cli_pc'[j] = "open" /\ active_session'[j] = n /\ stream_task'[j] = n

\* C19: the backend queue is FIFO end to end: it loses messages only at its head
\* and gains them only at its end, the channel to the backend's socket keeps
\* that order, and while a backend stays attached every message that leaves the
\* queue is put, once, into the channel of an open attached connection.
C19_AsStated ==
    [][/\ \A n \in Names : QueueFifo(n)
       /\ \A k \in CliConns : ChannelFifo(k)
       /\ \A n \in Names :
             TakenWhileAttached(n) =>
                 \E j \in CliConns :
                     /\ cli_pc[j] = "open" /\ active_session[j] = n
                     /\ cli_rx'[j] = Append(cli_rx[j], Head(update_queue[n]))
                     /\ \A i \in CliConns \ {j} : cli_rx'[i] = cli_rx[i]]_vars

\* The socket of a first backend broke and its streaming task still runs; a second
\* backend is attached to the same session on an open connection; an Input of
\* a writer waits at the head of the session's queue.
C19_Witness ==
    \E k \in CliConns, j \in CliConns :
        /\ cli_pc[k] = "closed" /\ stream_task[k] = "n1"
        /\ Attached(j, "n1")
        /\ update_queue["n1"] # <<>>
        /\ Head(update_queue["n1"]).kind = "Input"

(***************************************************************************)
(* Shell lifecycle: writers create and close shells, the host agent        *)
(* acknowledges in any order, and the frontends are sent the Shells frames.*)
(***************************************************************************)
NextShells ==
    \/ CliConnect("k1")
    \/ CliStreamUpdate("k1")
    \/ CliForward("k1", TRUE)
    \/ \E id \in ReqIds :
        \/ CliOpenSession("k1", id, "o", "n1", "z1", "h1", TRUE)
        \/ CliStartChannel("k1", id, "n1", ValidToken("n1"), TRUE)
        \/ \E sid \in Sids :
            \/ CliCreatedShell("k1", id, sid, 1, 1, TRUE)
            \/ CliClosedShell("k1", id, sid, TRUE)
    \/ WsConnect("c1", "n1", TRUE)
    \/ WsAuthenticate("c1", GoodFrame, TRUE)
    \/ WsUsers("c1", TRUE)
    \/ WsQueueReady("c1")
    \/ \E ok \in BOOLEAN : WsShells("c1", ok)
    \/ InFlight("n1") < MaxCliSent /\ WsCreate("c1", 0, 0, TRUE)
    \/ InFlight("n1") < MaxCliSent /\ WsClose("c1", 1, TRUE)

SpecShells == Init /\ [][NextShells]_vars

\* Connection c enqueues msg, or holds it while it waits for queue capacity.
Enqueues(c, msg) ==
    LET n == ws_session[c] IN
    /\ shells' = shells
    /\ \/ update_queue'[n] = Append(update_queue[n], msg)
       \/ ws_pending'[c] = msg /\ update_queue' = update_queue

\* Create by a writer allocates the next sid and enqueues CreateShell; Close by a
\* writer enqueues CloseShell; neither touches the shells.
RequestOnly(c) ==
    LET n == ws_session[c] IN
    WsCanRecv(c) =>
    /\ \/ ~check_write_permission(n, ws_uid[c]) /\ shells' = shells
       \/ /\ next_sid'[n] = next_sid[n] + 1
          /\ Enqueues(c, [kind |-> "CreateShell", id |-> next_sid[n], x |-> 0, y |-> 0])
       \/ ~WsCreate(c, 0, 0, TRUE)
    /\ \A sid \in Sids :
          \/ ~check_write_permission(n, ws_uid[c]) /\ shells' = shells
          \/ Enqueues(c, [kind |-> "CloseShell", id |-> sid]) /\ next_sid' = next_sid
          \/ ~WsClose(c, sid, TRUE)

\* A shell enters the map, open, only by a CreatedShell of an attached host agent
\* with an allocated id, and becomes closed only by its ClosedShell.
CommitOnly(n, sid) ==
    /\ shells'[n][sid].status # shells[n][sid].status =>
          \E k \in CliConns, id \in ReqIds :
              /\ active_session[k] = n
              /\ IF shells[n][sid].status = "none"
                 THEN /\ shells'[n][sid].status = "open" /\ sid < next_sid[n]
                      /\ \E x, y \in {0, 1} : CliCreatedShell(k, id, sid, x, y, TRUE)
                 ELSE /\ shells[n][sid].status = "open"
                      /\ shells'[n][sid].status = "closed"
                      /\ CliClosedShell(k, id, sid, TRUE)

\* A Shells frame sent in this step lists exactly the shells that are open.
FrameListsOpen(c) ==
    \A i \in ShellsFrames(c)' \ ShellsFrames(c) :
        {e[1] : e \in ws_sent'[c][i].shells}
            = {sid \in Sids : shells[ws_session[c]][sid].status = "open"}

\* C20: the shell lifecycle is two-phase. A writer's Create allocates a fresh
\* sid and enqueues CreateShell with it without adding the shell, and Close only
\* enqueues CloseShell; a shell is added only when the backend sends CreatedShell
\* with its id and is closed only when the backend sends ClosedShell with it;
\* every Shells frame lists exactly the shells that are open when it is sent, so
\* no frame names a shell the backend has not acknowledged.
C20_TwoPhase ==
    /\ [][/\ \A c \in WsConns : RequestOnly(c) /\ FrameListsOpen(c)
          /\ \A n \in Names, sid \in Sids : CommitOnly(n, sid)]_vars
    /\ [](\A c \in WsConns : \A i \in ShellsFrames(c) : \A e \in ws_sent[c][i].shells :
             shells[ws_session[c]][e[1]].status # "none")

\* Two sids were allocated; the backend acknowledged and later closed shell 1 and
\* has not acknowledged shell 2; a frontend was sent the empty list, then a frame
\* with shell 1, then the empty list again.
C20_Witness ==
    /\ next_sid["n1"] = 3
    /\ shells["n1"][1].status = "closed"
    /\ shells["n1"][2].status = "none"
    /\ \E c \in WsConns : \E i, j, l \in ShellsFrames(c) :
          /\ i < j /\ j < l
          /\ ws_sent[c][i].shells = {}
          /\ \E e \in ws_sent[c][j].shells : e[1] = 1
          /\ ws_sent[c][l].shells = {}

\* The id of a CreatedShell was never requested in session n, or its shell is closed.
Unrequested(n, sid) == sid >= next_sid[n] \/ shells[n][sid].status = "closed"

NextLoop ==
    \/ CliConnect("k1")
    \/ \E id \in ReqIds :
        \/ CliOpenSession("k1", id, "o", "n1", "z1", "none", TRUE)
        \/ CliStartChannel("k1", id, "n1", ValidToken("n1"), TRUE)
        \/ CliCloseSession("k1", id, "n1", ValidToken("n1"), TRUE)
        \/ CliCreatedShell("k1", id, 1, 0, 0, TRUE)
        \/ /\ shells["n1"][1].chunks = <<>>
           /\ CliTerminalData("k1", id, 1, <<0>>, 0, TRUE)
    \/ \E c \in WsConns :
        \/ WsConnect(c, "n1", TRUE)
        \/ WsAuthenticate(c, GoodFrame, TRUE)
    \/ WsUsers("c1", TRUE)
    \/ WsCreate("c1", 0, 0, TRUE)
    \/ WsSubscribe("c1", 1, 0)
    \/ PumpPoll("c1", 1)
    \/ PumpSend("c1", 1)
    \/ WsTerminated("c1")
    \/ WsBroadcast("c1", TRUE)
    \/ WsShells("c1", TRUE)
    \/ WsChunks("c1", TRUE)
    \/ WsRecvNone("c1")

SpecLoop == Init /\ [][NextLoop]_vars

\* The sources of the main loop of c that have something to deliver.
TermReady(c) == WsRunning(c) /\ terminated[ws_session[c]]
BcastReady(c) == WsRunning(c) /\ (bcast[c].lagged \/ bcast[c].q # <<>>)
ShellsReady(c) == WsRunning(c) /\ shells_stream_ready(c)
ChunksReady(c) == WsRunning(c) /\ chunks_rx[c] # <<>>

\* The arm of the main loop of c that a step takes.
TakesBcast(c) == \E ok \in BOOLEAN : WsBroadcast(c, ok)
TakesShells(c) == \E ok \in BOOLEAN : WsShells(c, ok)
TakesChunks(c) == \E ok \in BOOLEAN : WsChunks(c, ok)
TakesFrame(c) ==
    \/ WsRecvNone(c)
    \/ WsCreate(c, 0, 0, TRUE)
    \/ \E sid \in Sids : WsSubscribe(c, sid, 0)

\* C22 as stated: the main loop of a frontend takes its sources by priority:
\* while termination is ready it takes no other arm, while a broadcast event is
\* ready it takes neither the shells topic, a chunk delivery nor a client frame,
\* while a shells update is ready it takes neither a chunk delivery nor a client
\* frame, and while a chunk delivery is ready it takes no client frame.
C22_AsStated ==
    [][\A c \in WsConns :
          WsRunning(c) =>
              /\ TermReady(c) =>
                    ~(TakesBcast(c) \/ TakesShells(c) \/ TakesChunks(c) \/ TakesFrame(c))
              /\ BcastReady(c) => ~(TakesShells(c) \/ TakesChunks(c) \/ TakesFrame(c))
              /\ ShellsReady(c) => ~(TakesChunks(c) \/ TakesFrame(c))
              /\ ChunksReady(c) => ~TakesFrame(c)]_vars

\* A frontend in its main loop with all four sources ready: the session is closed,
\* a broadcast event and a chunk delivery wait, and the shell list has changed.
C22_Witness ==
    \E c \in WsConns :
        /\ TermReady(c) /\ BcastReady(c) /\ ShellsReady(c) /\ ChunksReady(c)
        /\ ws_sent[c] # <<>>

\* The first Subscribe for sid starts its consumer at start; a later one does nothing.
SubscribeStep(c, sid, start) ==
    \/ /\ sid \notin subscribed[c]
       /\ subscribed'[c] = subscribed[c] \cup {sid}
       /\ pump'[c][sid] = [NoPump EXCEPT !.st = "run", !.start = start]
       /\ \A s2 \in Sids \ {sid} : pump'[c][s2] = pump[c][s2]
    \/ sid \in subscribed[c] /\ UNCHANGED vars
    \/ ~WsSubscribe(c, sid, start)

\* No byte of shell sid is sent to c twice: each Chunks frame starts at or after the
\* end of every earlier one.
NoChunkTwice(c, sid) ==
    LET F == ChunksFrames(ws_sent[c], sid)
    IN  \A i, j \in 1..Len(F) :
            i < j => F[j].seqnum >= F[i].seqnum + SumBytes(F[i].chunks)

\* C23: Subscribe is idempotent per shell per connection: the first Subscribe for
\* a sid starts the one consumer of that shell at its start_seq, every later
\* Subscribe for the sid changes nothing whatever its start_seq, a consumer
\* keeps the start it was given, and no connection is sent a chunk twice.
C23_SubscribeOnce ==
    /\ [](\A c \in WsConns, sid \in Sids :
             /\ sid \in subscribed[c] <=> pump[c][sid].st # "none"
             /\ NoChunkTwice(c, sid))
    /\ [][\A c \in WsConns, sid \in Sids :
             /\ \A start \in Seqs : SubscribeStep(c, sid, start)
             /\ pump[c][sid].st # "none" => pump'[c][sid].start = pump[c][sid].start]_vars

\* A connection subscribed to shell 1 from a start above 0 and was sent two frames
\* of it, of which the later one begins where the earlier one ends.
C23_Witness ==
    \E c \in WsConns :
        LET F == ChunksFrames(ws_sent[c], 1)
        IN  /\ subscribed[c] = {1} /\ pump[c][1].start > 0
            /\ Len(F) >= 2 /\ F[1].seqnum > 0
            /\ F[2].seqnum = F[1].seqnum + SumBytes(F[1].chunks)

\* The main loop of c finds its broadcast receiver lagged.
LagStep(c) == WsRunning(c) /\ bcast[c].lagged /\ (\E ok \in BOOLEAN : WsBroadcast(c, ok))

\* The lag closes c and removes its user; the session and the other frontends stay.
LagIsLocal(c) ==
    /\ ws_pc'[c] = "closed"
    /\ ~users'[ws_session[c]][ws_uid[c]].present
    /\ UNCHANGED <<sessions, terminated, shells, update_queue, ws_sent>>
    /\ \A d \in WsConns \ {c} :
          /\ ws_pc'[d] = ws_pc[d]
          /\ bcast'[d].on = bcast[d].on
          /\ ws_uid[d] \in Uids =>
                 users'[ws_session[d]][ws_uid[d]] = users[ws_session[d]][ws_uid[d]]

\* Every change of a user record of session n reaches, as one event at the end of
\* its receiver, each frontend of n that is subscribed before and after the step
\* and whose own receiver is not full.
EventReaches(n, u) ==
    users'[n][u] # users[n][u] =>
        \A d \in WsConns :
            (bcast[d].on /\ bcast'[d].on /\ ws_session[d] = n) =>
                \/ bcast'[d].lagged
                \/ bcast'[d].q = Append(bcast[d].q, UserDiff(u, users'[n][u]))

\* A receiver loses an event only by sending it on its own connection.
ReceiverKeeps(d) ==
    (bcast[d].on /\ bcast'[d].on /\ ~bcast'[d].lagged) =>
        \/ bcast'[d].q = bcast[d].q
        \/ Len(bcast'[d].q) = Len(bcast[d].q) + 1
              /\ SubSeq(bcast'[d].q, 1, Len(bcast[d].q)) = bcast[d].q
        \/ /\ bcast[d].q # <<>> /\ bcast'[d].q = Tail(bcast[d].q)
           /\ ws_sent'[d] = Append(ws_sent[d], Head(bcast[d].q))

\* C24: broadcast lag is local. When the main loop of a frontend finds that its
\* receiver fell behind the bus by its capacity, that connection is closed and
\* its user is removed, the session is not terminated and no other connection
\* is closed; every event, the leave of the lagging frontend included, still
\* reaches every other subscribed frontend whose own receiver is not full, and
\* a receiver gives up an event only by sending it.
C24_LagIsLocal ==
    [][/\ \A c \in WsConns : ~LagStep(c) \/ LagIsLocal(c)
       /\ \A n \in Names, u \in Uids : EventReaches(n, u)
       /\ \A d \in WsConns : ReceiverKeeps(d)]_vars

\* One frontend's receiver has overflowed while it is still in its main loop;
\* another frontend of the same, open session has events waiting and is not lagged.
C24_Witness ==
    \E c \in WsConns, d \in WsConns :
        /\ WsRunning(c) /\ bcast[c].lagged /\ Len(bcast[c].q) = BroadcastCap
        /\ WsRunning(d) /\ ws_session[d] = ws_session[c] /\ ~bcast[d].lagged
        /\ bcast[d].q # <<>> /\ ~terminated[ws_session[c]]

(***************************************************************************)
(* Protocol violations: the host agent sends Data with every seq and       *)
(* frames that do not decode, and so does a frontend.                      *)
(***************************************************************************)
NextProto ==
    \/ CliConnect("k1")
    \/ CliRecvUnparseable("k1")
    \/ \E id \in ReqIds :
        \/ CliOpenSession("k1", id, "o", "n1", "z1", "none", TRUE)
        \/ CliStartChannel("k1", id, "n1", ValidToken("n1"), TRUE)
        \/ CliCreatedShell("k1", id, 1, 0, 0, TRUE)
        \/ \E data \in DataSet, seq \in Seqs : CliTerminalData("k1", id, 1, data, seq, TRUE)
    \/ WsConnect("c1", "n1", TRUE)
    \/ WsAuthenticate("c1", GoodFrame, TRUE)
    \/ WsUsers("c1", TRUE)
    \/ WsRecvUnparseable("c1")
    \/ WsCreate("c1", 0, 0, TRUE)

SpecProto == Init /\ [][NextProto]_vars

\* An Error frame is written to frontend c and c is closed.
WsErrorAndClose(c) ==
    /\ ws_pc'[c] = "closed"
    /\ Len(ws_sent'[c]) = Len(ws_sent[c]) + 1
    /\ ws_sent'[c][Len(ws_sent'[c])].kind = "Error"

\* C25 as stated: a Data message with a seq beyond the stored bytes is answered
\* with an Error and closes the backend connection, a frame of a frontend that
\* does not decode is answered with an Error frame and closes that connection,
\* and both leave the shells, the roster of the others and the queue unchanged.
C25_AsStated ==
    [][/\ GapStep =>
             /\ shells' = shells /\ update_queue' = update_queue
             /\ \E k \in CliConns :
                   /\ cli_resp'[k].kind = "Error"
                   /\ cli_pc[k] = "open" /\ cli_pc'[k] = "closed"
       /\ \A c \in WsConns :
             \/ ~WsRecvUnparseable(c)
             \/ /\ WsErrorAndClose(c)
                /\ UNCHANGED <<shells, update_queue, sessions, terminated>>]_vars

\* The backend's Data with a gap was refused with an Error response and its
\* connection is still open and attached; a frontend whose frame did not decode
\* is closed and was never sent an Error frame.
C25_Witness ==
    /\ last_ingest.case = "gap"
    /\ cli_pc["k1"] = "open" /\ active_session["k1"] = "n1"
    /\ cli_resp["k1"].kind = "Error" /\ cli_resp["k1"].text = "add data"
    /\ \E c \in WsConns :
          /\ ws_pc[c] = "closed" /\ ws_sent[c] # <<>>
          /\ \A i \in 1..Len(ws_sent[c]) : ws_sent[c][i].kind # "Error"

(***************************************************************************)
(* Sync: the sync timer of the streaming task ticks again and again while  *)
(* the host agent creates shells and sends their bytes.                    *)
(***************************************************************************)
NextSync ==
    \/ CliConnect("k1")
    \/ CliForward("k1", TRUE)
    \/ \E id \in ReqIds :
        \/ CliOpenSession("k1", id, "o", "n1", "z1", "none", TRUE)
        \/ CliStartChannel("k1", id, "n1", ValidToken("n1"), TRUE)
        \/ CliCreatedShell("k1", id, 1, 0, 0, TRUE)
        \/ CliClosedShell("k1", id, 1, TRUE)
        \/ CliTerminalData("k1", id, 1, <<0>>, shells["n1"][1].byte_total, TRUE)
    \/ cli_rx["k1"] = <<>> /\ CliStreamTick("k1", "Sync")
    \/ WsConnect("c1", "n1", TRUE)
    \/ WsAuthenticate("c1", GoodFrame, TRUE)
    \/ WsUsers("c1", TRUE)
    \/ next_sid["n1"] = 1 /\ WsCreate("c1", 0, 0, TRUE)

SpecSync == Init /\ [][NextSync]_vars

\* The Sync messages connection k has carried, oldest first.
Syncs(k) == SelectSeq(Carried(k), LAMBDA m : m.kind = "Sync")

\* A Sync put into the channel of k in this step is the byte_total of each open shell.
SyncIsByteTotal(k) ==
    \/ stream_task[k] = NoSession
    \/ cli_rx'[k] = Append(cli_rx[k],
           [kind |-> "Sync",
            seqs |-> [sid \in {x \in Sids : shells[stream_task[k]][x].status = "open"} |->
                         shells[stream_task[k]][sid].byte_total]])
    \/ cli_pc[k] = "closed"
    \/ ~CliStreamTick(k, "Sync")

\* C26: every Sync the relay sends to the backend carries, for each open shell,
\* the shell's byte_total at the moment the message is built; so no Sync value
\* exceeds the bytes stored for its shell, and the values for one shell in
\* successive Syncs on a connection never decrease.
C26_SyncIsByteTotal ==
    /\ [][\A k \in CliConns : SyncIsByteTotal(k)]_vars
    /\ [](\A k \in CliConns :
             \A i \in 1..Len(Syncs(k)) : \A sid \in DOMAIN Syncs(k)[i].seqs :
                 /\ active_session[k] # NoSession =>
                        Syncs(k)[i].seqs[sid] <= shells[active_session[k]][sid].byte_total
                 /\ \A j \in i..Len(Syncs(k)) :
                        sid \in DOMAIN Syncs(k)[j].seqs =>
                            Syncs(k)[i].seqs[sid] <= Syncs(k)[j].seqs[sid])

\* The backend was sent a Sync with 0 for shell 1 and later one with a larger
\* number for it, and the shell has since grown beyond that.
C26_Witness ==
    \E i, j \in 1..Len(Syncs("k1")) :
        /\ i < j
        /\ 1 \in DOMAIN Syncs("k1")[i].seqs /\ Syncs("k1")[i].seqs[1] = 0
        /\ 1 \in DOMAIN Syncs("k1")[j].seqs /\ Syncs("k1")[j].seqs[1] > 0
        /\ shells["n1"][1].byte_total > Syncs("k1")[j].seqs[1]

(***************************************************************************)
(* Background tasks: a frontend subscribes to a shell and types while the  *)
(* host agent feeds the shell, leaves, and the session is closed.          *)
(***************************************************************************)
NextTasks ==
    \/ CliConnect("k1")
    \/ CliRecvNone("k1")
    \/ CliStreamUpdate("k1")
    \/ CliStreamTerminated("k1")
    \/ \E id \in ReqIds :
        \/ CliOpenSession("k1", id, "o", "n1", "z1", "none", TRUE)
        \/ active_session["k1"] = NoSession
              /\ CliStartChannel("k1", id, "n1", ValidToken("n1"), TRUE)
        \/ CliCloseSession("k1", id, "n1", ValidToken("n1"), TRUE)
        \/ CliCreatedShell("k1", id, 1, 0, 0, TRUE)
        \/ /\ Len(shells["n1"][1].chunks) < 2
           /\ CliTerminalData("k1", id, 1, <<0>>, shells["n1"][1].byte_total, TRUE)
    \/ WsConnect("c1", "n1", TRUE)
    \/ WsAuthenticate("c1", GoodFrame, TRUE)
    \/ WsUsers("c1", TRUE)
    \/ next_sid["n1"] = 1 /\ WsCreate("c1", 0, 0, TRUE)
    \/ InFlight("n1") < MaxCliSent /\ WsData("c1", 1, <<0>>, 0, TRUE)
    \/ WsSubscribe("c1", 1, 0)
    \/ PumpPoll("c1", 1)
    \/ PumpSend("c1", 1)
    \/ WsChunks("c1", TRUE)
    \/ WsTerminated("c1")
    \/ WsQueueReady("c1")
    \/ WsRecvNone("c1")

SpecTasks == Init /\ [][NextTasks]_vars

\* The scheduler runs every task that can take a step, the timers tick, and a
\* main loop that is in its select takes an arm that is ready.
FairTasks ==
    /\ WF_vars(PumpPoll("c1", 1)) /\ WF_vars(PumpSend("c1", 1))
    /\ WF_vars(WsTerminated("c1")) /\ WF_vars(WsQueueReady("c1"))
    /\ WF_vars(CliStreamTerminated("k1")) /\ WF_vars(CliStreamUpdate("k1"))

SpecTasksFair == SpecTasks /\ FairTasks

PumpAlive(c, sid) == pump[c][sid].st \in {"run", "held"}

\* C27 as stated: every background task of a session exits in the end once the
\* session's terminated signal has fired, and also once it has something to send
\* to a sink that has gone away: a chunk pump whose session is terminated, or
\* that holds a batch for a closed frontend connection, ends; the periodic task
\* of a backend whose session is terminated or whose connection is closed ends.
C27_AsStated ==
    /\ \A c \in WsConns, sid \in Sids :
          /\ (PumpAlive(c, sid) /\ terminated[ws_session[c]]) ~> ~PumpAlive(c, sid)
          /\ (pump[c][sid].st = "held" /\ ws_pc[c] = "closed") ~> ~PumpAlive(c, sid)
    /\ \A k \in CliConns :
          (stream_task[k] # NoSession /\ (terminated[stream_task[k]] \/ cli_pc[k] = "closed"))
              ~> (stream_task[k] = NoSession)

\* The session is closed and no backend task is left; a frontend waits for room in
\* the full backend queue, its pump channel is full and the pump of shell 1 holds
\* the next batch for it.
C27_Witness ==
    /\ terminated["n1"] /\ \A k \in CliConns : stream_task[k] = NoSession
    /\ ws_pc["c1"] = "await_queue" /\ Len(update_queue["n1"]) = MaxQueue
    /\ Len(chunks_rx["c1"]) = ChunksCap /\ pump["c1"][1].st = "held"

(***************************************************************************)
(* Open: two host agents open sessions at the same time, on handlers that  *)
(* run in parallel, and the generator may draw the same name for both.     *)
(***************************************************************************)
NextOpen ==
    \/ \E k \in CliConns : CliConnect(k)
    \/ \E id \in ReqIds, n \in Names :
        \/ CliOpenLookup("k1", id, "o", n, "z1", "none")
        \/ CliOpenLookup("k2", id, "p", n, "z2", "h1")
    \/ \E k \in CliConns : CliOpenInsert(k, TRUE)
    \/ \E k \in CliConns, id \in ReqIds, n \in Names, origin \in {"", "o"} :
           /\ opening[k] = NoOpen
           /\ CliOpenSession(k, id, origin, n, "z1", "none", TRUE)
    \/ \E k \in CliConns, id \in ReqIds, n \in Names :
           /\ opening[k] = NoOpen /\ active_session[k] = NoSession
           /\ CliStartChannel(k, id, n, ValidToken(n), TRUE)
    \/ \E n \in Names :
           /\ \A k \in CliConns : opening[k] = NoOpen
           /\ WsConnect("c1", n, TRUE)
    \/ WsAuthenticate("c1", GoodFrame, TRUE)
    \/ WsUsers("c1", TRUE)

SpecOpen == Init /\ [][NextOpen]_vars

\* Connection k completes an OpenSession in this step.
OpenStep(k) ==
    \/ CliOpenInsert(k, TRUE)
    \/ \E id \in ReqIds, n \in Names, origin \in {"", "o"} :
           CliOpenSession(k, id, origin, n, "z1", "none", TRUE)

\* C28 as stated: Open never replaces a session. A step that completes an
\* OpenSession leaves every session of the map in the map with its metadata
\* unchanged; it either answers an error and inserts nothing, or it answers
\* {name, token, url} for a name that was not in the map and inserts exactly
\* that name; and no two connections are ever given the same name.
C28_AsStated ==
    /\ [][\A k \in CliConns :
             \/ ~OpenStep(k)
             \/ /\ \A n \in sessions : n \in sessions' /\ metadata'[n] = metadata[n]
                /\ IF cli_resp'[k].kind = "OpenSession"
                   THEN /\ cli_resp'[k].name \notin sessions
                        /\ sessions' = sessions \cup {cli_resp'[k].name}
                        /\ cli_resp'[k].token = ValidToken(cli_resp'[k].name)
                   ELSE sessions' = sessions /\ metadata' = metadata]_vars
    /\ [](\A k \in CliConns, j \in CliConns :
             (k # j /\ cli_resp[k].kind = "OpenSession" /\ cli_resp[j].kind = "OpenSession")
                 => cli_resp[k].name # cli_resp[j].name)

\* Both host agents were answered OpenSession with the same name, and the session
\* under that name carries the metadata of the second one only.
C28_Witness ==
    /\ cli_resp["k1"].kind = "OpenSession" /\ cli_resp["k2"].kind = "OpenSession"
    /\ cli_resp["k1"].name = cli_resp["k2"].name
    /\ metadata[cli_resp["k1"].name].encrypted_zeros = "z2"
    /\ \A k \in CliConns : opening[k] = NoOpen

(***************************************************************************)
(* proxy_redirect: the session lives on a peer; the relay opens a client   *)
(* socket to the peer and copies frames between the two sockets.           *)
(***************************************************************************)
MaxProxied == 3

\* What a recv() can return: a frame of one of the kinds (Ping stands for Ping and
\* Pong), the end of the stream (None) or an error (Err).
ProxyFrames ==
    {[kind |-> "Text", body |-> "t"], [kind |-> "Binary", body |-> "b"],
     [kind |-> "Close", body |-> "none"], [kind |-> "Close", body |-> "1000"],
     [kind |-> "Ping", body |-> "p"]}
ProxyResults == ProxyFrames \cup {[kind |-> "None", body |-> ""], [kind |-> "Err", body |-> ""]}

\* Faulty variant of the match: text frames are not translated.
Translate_binary(f) ==
    CASE f.kind = "Binary" -> [kind |-> "Binary", body |-> f.body]
      [] f.kind = "Close" -> [kind |-> "Close", body |-> f.body]
      [] OTHER -> NoMsg

\* The match of lines 293-305 and 313-325: the frame of the other library's type,
\* or NoMsg where the code yields None.
Translate(f) ==
    CASE f.kind = "Text" -> [kind |-> "Text", body |-> f.body]
      [] f.kind = "Binary" -> [kind |-> "Binary", body |-> f.body]
      [] f.kind = "Close" -> [kind |-> "Close", body |-> f.body]
      [] OTHER -> NoMsg

\* A stream that returned Close, None or Err returns no further frame.
StreamEnded(log) ==
    IF log = <<>> THEN FALSE ELSE log[Len(log)].kind \in {"Close", "None", "Err"}

\* get_session_ws when frontend_connect answers Redirect(host): connect_async to the
\* peer; when it fails the client gets Close 4500.
WsRedirect(c, n, ok) ==
    /\ ws_pc[c] = "idle"
    /\ n \notin sessions
    /\ ws_session' = [ws_session EXCEPT ![c] = n]
    /\ IF ok
       THEN /\ ws_pc' = [ws_pc EXCEPT ![c] = "proxy"]
            /\ ws_sent' = ws_sent
       ELSE /\ ws_pc' = [ws_pc EXCEPT ![c] = "closed"]
            /\ ws_sent' = [ws_sent EXCEPT ![c] = Append(@, WsFrame("Close4500"))]
    /\ UNCHANGED <<sessVars, histVars, extVars, proxyVars, cliVars, ws_uid, ws_pending, subscribed,
                   chunks_rx, pump, bcast>>

\* The loop is left: proxy_redirect returns Ok and get_session_ws closes the socket
\* (the relay's own close frame, which reaches a client that is still there).
ProxyBreak(c) ==
    /\ ws_pc' = [ws_pc EXCEPT ![c] = "closed"]
    /\ \E sent \in BOOLEAN :
          ws_sent' = [ws_sent EXCEPT ![c] = IF sent THEN Append(@, WsFrame("Close")) ELSE @]

\* The first arm of the select!: socket.recv() returned r; a translated frame is
\* sent upstream, and a failed send or an Err leaves the loop.
ProxyClientRecv(c, r, ok) ==
    /\ ws_pc[c] = "proxy"
    /\ ~StreamEnded(client_in[c])
    /\ Len(client_in[c]) < MaxProxied
    /\ client_in' = [client_in EXCEPT ![c] = Append(@, r)]
    /\ IF r.kind = "None"
       THEN UNCHANGED <<ws_pc, ws_sent, upstream_sent>>
       ELSE IF r.kind = "Err"
       THEN ProxyBreak(c) /\ upstream_sent' = upstream_sent
       ELSE IF Translate(r) = NoMsg
       THEN UNCHANGED <<ws_pc, ws_sent, upstream_sent>>
       ELSE IF ok
       THEN /\ upstream_sent' = [upstream_sent EXCEPT ![c] = Append(@, Translate(r))]
            /\ UNCHANGED <<ws_pc, ws_sent>>
       ELSE ProxyBreak(c) /\ upstream_sent' = upstream_sent
    /\ UNCHANGED <<sessVars, histVars, extVars, cliVars, ws_session, ws_uid, ws_pending, subscribed,
                   chunks_rx, pump, bcast, upstream_in>>

\* The second arm of the select!: upstream.next() returned r; a translated frame is
\* sent to the client, and a failed send or an Err leaves the loop.
ProxyUpstreamRecv(c, r, ok) ==
    /\ ws_pc[c] = "proxy"
    /\ ~StreamEnded(upstream_in[c])
    /\ Len(upstream_in[c]) < MaxProxied
    /\ upstream_in' = [upstream_in EXCEPT ![c] = Append(@, r)]
    /\ IF r.kind = "None"
       THEN UNCHANGED <<ws_pc, ws_sent>>
       ELSE IF r.kind = "Err"
       THEN ProxyBreak(c)
       ELSE IF Translate(r) = NoMsg
       THEN UNCHANGED <<ws_pc, ws_sent>>
       ELSE IF ok
       THEN /\ ws_sent' = [ws_sent EXCEPT ![c] = Append(@, Translate(r))]
            /\ ws_pc' = ws_pc
       ELSE ProxyBreak(c)
    /\ UNCHANGED <<sessVars, histVars, extVars, cliVars, ws_session, ws_uid, ws_pending, subscribed,
                   chunks_rx, pump, bcast, client_in, upstream_sent>>

\* The else arm: both streams have ended.
ProxyElse(c) ==
    /\ ws_pc[c] = "proxy"
    /\ client_in[c] # <<>> /\ client_in[c][Len(client_in[c])].kind = "None"
    /\ upstream_in[c] # <<>> /\ upstream_in[c][Len(upstream_in[c])].kind = "None"
    /\ ProxyBreak(c)
    /\ UNCHANGED <<sessVars, histVars, extVars, proxyVars, cliVars, ws_session, ws_uid, ws_pending,
                   subscribed, chunks_rx, pump, bcast>>

NextProxy ==
    \/ \E ok \in BOOLEAN : WsRedirect("c1", "n1", ok)
    \/ WsConnect("c2", "n2", TRUE)
    \/ \E r \in ProxyResults, ok \in BOOLEAN : ProxyClientRecv("c1", r, ok)
    \/ \E r \in ProxyResults, ok \in BOOLEAN : ProxyUpstreamRecv("c1", r, ok)
    \/ ProxyElse("c1")

SpecProxy == Init /\ [][NextProxy]_vars

\* The frames of a receive log that are of the given kinds, in the order received.
Kept(log, kinds) == SelectSeq(log, LAMBDA f : f.kind \in kinds)

\* The frames the relay copied to the client: all but its own close frames.
ToClient(c) == SelectSeq(ws_sent[c], LAMBDA f : "body" \in DOMAIN f)

\* out is the copy of the frames of these kinds in log; when the loop has been left,
\* the last frame received may be the one whose send failed.
CopyOf(c, out, log, kinds) ==
    \/ out = Kept(log, kinds)
    \/ /\ ws_pc[c] = "closed"
       /\ IF log = <<>> THEN FALSE ELSE out = Kept(SubSeq(log, 1, Len(log) - 1), kinds)

\* C29 as stated: while proxying, the relay forwards every binary frame and every
\* close frame in both directions, in order, and it forwards no text frame.
C29_AsStated ==
    \A c \in WsConns :
        /\ CopyOf(c, upstream_sent[c], client_in[c], {"Binary", "Close"})
        /\ CopyOf(c, ToClient(c), upstream_in[c], {"Binary", "Close"})

\* C29 amended: while proxying, the relay forwards every text, binary and close
\* frame in both directions, in order and unchanged, and drops ping and pong frames;
\* the only frame received and not forwarded is one whose send failed, which ends
\* the proxying.
C29_ProxyCopies ==
    \A c \in WsConns :
        /\ CopyOf(c, upstream_sent[c], client_in[c], {"Text", "Binary", "Close"})
        /\ CopyOf(c, ToClient(c), upstream_in[c], {"Text", "Binary", "Close"})
        /\ ws_pc[c] = "proxy" =>
              /\ upstream_sent[c] = Kept(client_in[c], {"Text", "Binary", "Close"})
              /\ ToClient(c) = Kept(upstream_in[c], {"Text", "Binary", "Close"})

\* The relay is proxying; it received a text, a ping and a binary frame from the
\* client and sent the text and the binary frame upstream, and it copied a binary
\* and a close frame from the upstream to the client.
C29_Witness ==
    /\ ws_pc["c1"] = "proxy"
    /\ Len(client_in["c1"]) = 3
    /\ client_in["c1"][2].kind = "Ping"
    /\ Len(upstream_sent["c1"]) = 2
    /\ upstream_sent["c1"][1].kind = "Text" /\ upstream_sent["c1"][2].kind = "Binary"
    /\ Len(ws_sent["c1"]) = 2
    /\ ws_sent["c1"][1].kind = "Binary" /\ ws_sent["c1"][2] = [kind |-> "Close", body |-> "1000"]

(***************************************************************************)
(* Presence verbs: a writer and a reader set their names, cursors and focus *)
(* next to a shell and a waiting backend message.                          *)
(***************************************************************************)
Cursors == {"none", "at"}

\* The record of the user of connection c.
Sender(c) == users[ws_session[c]][ws_uid[c]]

NextVerbs ==
    \/ \E k \in FirstCli : CliConnect(k)
    \/ \E k \in FirstCli, id \in ReqIds :
        \/ /\ sessions = {}
           /\ CliOpenSession(k, id, "o", "n1", "z1", "h1", TRUE)
        \/ /\ active_session[k] = NoSession
           /\ CliStartChannel(k, id, "n1", ValidToken("n1"), TRUE)
        \/ /\ shells["n1"][1].status = "none"
           /\ CliCreatedShell(k, id, 1, 0, 0, TRUE)
    \/ \E c \in WsConns :
        \/ WsConnect(c, "n1", TRUE)
        \/ WsAuthenticate(c, [GoodFrame EXCEPT !.write = IF c = "c1" THEN "h1" ELSE "none"],
                          TRUE)
        \/ WsUsers(c, TRUE)
        \/ WsBroadcast(c, TRUE)
        \/ \E p \in {"none", "h1"} : WsAuthenticateAgain(c, [GoodFrame EXCEPT !.write = p])
        \/ WsRecvNone(c)
    \/ /\ WsRunning("c2")
       /\ \/ \E name \in {"", "a"} : Sender("c2").name = "user" /\ WsSetName("c2", name)
          \/ \E cursor \in Cursors : Sender("c2").cursor = "none" /\ WsSetCursor("c2", cursor)
          \/ \E id \in {0, 1} : Sender("c2").focus = 0 /\ WsSetFocus("c2", id)
    \/ /\ next_sid["n1"] = 1
       /\ WsCreate("c1", 0, 0, TRUE)

SpecVerbs == Init /\ [][NextVerbs]_vars

\* Connection c handles one of the four verbs in this step.
VerbStep(c) ==
    \/ \E name \in {"", "a"} : WsSetName(c, name)
    \/ \E cursor \in Cursors : WsSetCursor(c, cursor)
    \/ \E id \in {0, 1} : WsSetFocus(c, id)
    \/ \E p \in {"none", "h1"} : WsAuthenticateAgain(c, [GoodFrame EXCEPT !.write = p])

\* Everything of the session state but the sender's own record is as before.
OnlyOwnRecord(c) ==
    /\ \A n \in Names, u \in Uids :
          (n # ws_session[c] \/ u # ws_uid[c]) => users'[n][u] = users[n][u]
    /\ users'[ws_session[c]][ws_uid[c]].can_write = Sender(c).can_write
    /\ users'[ws_session[c]][ws_uid[c]].present = Sender(c).present
    /\ UNCHANGED <<sessions, metadata, shells, next_sid, next_uid, terminated, update_queue>>

\* C30: a user's can_write is fixed at join and never changes while the user is
\* present; SetName(s) changes only the sender's own name, and only when s is not
\* empty; SetCursor and SetFocus change only the sender's own cursor or focus; an
\* Authenticate after the handshake changes nothing; and none of these verbs changes
\* another user's record, a shell or the backend queue.
C30_VerbsAreLocal ==
    /\ [][\A n \in Names, u \in Uids :
             (users[n][u].present /\ users'[n][u].present)
                 => users'[n][u].can_write = users[n][u].can_write]_vars
    /\ [][\A c \in WsConns :
             IF ~WsCanRecv(c) THEN TRUE
             ELSE /\ ~VerbStep(c) \/ OnlyOwnRecord(c)
                  /\ \A name \in {"", "a"} :
                        ~WsSetName(c, name)
                        \/ users'[ws_session[c]][ws_uid[c]] =
                              IF name = "" THEN Sender(c)
                              ELSE [Sender(c) EXCEPT !.name = name]
                  /\ \A cursor \in Cursors :
                        ~WsSetCursor(c, cursor)
                        \/ users'[ws_session[c]][ws_uid[c]] =
                              [Sender(c) EXCEPT !.cursor = cursor]
                  /\ \A id \in {0, 1} :
                        ~WsSetFocus(c, id)
                        \/ users'[ws_session[c]][ws_uid[c]] =
                              [Sender(c) EXCEPT !.focus = id]
                  /\ \A p \in {"none", "h1"} :
                        ~WsAuthenticateAgain(c, [GoodFrame EXCEPT !.write = p])
                        \/ UNCHANGED vars]_vars

\* The reader has set its name, cursor and focus and is still a reader; the writer
\* next to it is unchanged and still a writer, the shell is open and a message waits
\* in the backend queue.
C30_Witness ==
    /\ ws_pc["c1"] = "running" /\ ws_pc["c2"] = "running"
    /\ Sender("c2") = [present |-> TRUE, name |-> "a", cursor |-> "at", focus |-> 1,
                       can_write |-> FALSE]
    /\ Sender("c1") = NewUser(TRUE)
    /\ shells["n1"][1].status = "open"
    /\ update_queue["n1"] # <<>>

(***************************************************************************)
(* Dashboard registry (web.rs): register, list, status and the reaper.     *)
(***************************************************************************)
U32Max == 2147483647            \* stands for u32::MAX (the checker's integers end here)
DayMs == 86400000
MaxClock == 300                 \* the clock of the listing scenario stops here
MaxPageSize == 3                \* page sizes and pages asked for: 0..MaxPageSize

Min(a, b) == IF a < b THEN a ELSE b
Max(a, b) == IF a > b THEN a ELSE b

\* str::to_lowercase on the texts of the model.
to_lowercase(t) ==
    CASE t = "N1" -> "n1"
      [] t = "Alice" -> "alice"
      [] OTHER -> t

\* str::contains on lower-cased texts: the pairs <<text, pattern>> that match.
contains(t, pat) ==
    <<t, pat>> \in {<<"n1", "n1">>, <<"n1", "n">>, <<"n2", "n">>, <<"n3", "n">>,
                    <<"alice", "ali">>, <<"alice", "alice">>, <<"user", "user">>}

\* String::trim(..).is_empty()
trim_is_empty(t) == t \in {"", " "}

\* Ord for the session names of the model.
NameRank(n) == CASE n = "n1" -> 1 [] n = "n2" -> 2 [] OTHER -> 3

\* The SessionInfo list_dashboard_sessions builds for a live session (277-298);
\* last_accessed is session.last_accessed().elapsed().
SessionInfo(n) ==
    [name |-> n,
     shell_count |-> Cardinality({sid \in Sids : shells[n][sid].status = "open"}),
     user_count |-> Cardinality({u \in Uids : users[n][u].present}),
     has_write_password |-> metadata[n].write_password_hash # "none",
     last_accessed |-> now - last_accessed[n],
     users |-> {users[n][u].name : u \in {v \in Uids : users[n][v].present}},
     metadata |-> session_metadata[n]]

\* The retain of the search filter (304-311).
Retained(info, search) ==
    LET search_lower == to_lowercase(search) IN
    \/ contains(to_lowercase(info.name), search_lower)
    \/ info.metadata.registered
          /\ contains(to_lowercase(info.metadata.display_name), search_lower)
    \/ \E user \in info.users : contains(to_lowercase(user), search_lower)

\* The comparator of sort_by for the query's sort and order (316-345): a goes
\* before b.
Before(a, b, sort, order) ==
    LET key(x) == CASE sort = "name" -> NameRank(x.name)
                    [] sort = "userCount" -> x.user_count
                    [] sort = "shellCount" -> x.shell_count
                    [] OTHER -> x.last_accessed
    IN  IF order = "desc" THEN key(a) > key(b) ELSE key(a) < key(b)

\* slice::sort_by, a stable sort.
RECURSIVE InsertStable(_, _, _, _)
InsertStable(S, x, sort, order) ==
    IF S = <<>> THEN <<x>>
    ELSE IF Before(x, S[Len(S)], sort, order)
         THEN Append(InsertStable(SubSeq(S, 1, Len(S) - 1), x, sort, order), S[Len(S)])
         ELSE Append(S, x)

RECURSIVE sort_by(_, _, _)
sort_by(L, sort, order) ==
    IF L = <<>> THEN <<>>
    ELSE InsertStable(sort_by(SubSeq(L, 1, Len(L) - 1), sort, order), L[Len(L)], sort, order)

\* The orders in which iter_sessions can yield the sessions of the map.
IterOrders == {it \in [1..Cardinality(sessions) -> sessions] :
                  \A i, j \in 1..Cardinality(sessions) : it[i] = it[j] => i = j}

\* The joined, filtered and sorted list (272-346) for one iteration order.
FullList(key, q, it) ==
    LET joined == SelectSeq([i \in 1..Len(it) |-> SessionInfo(it[i])],
                            LAMBDA info : info.name \in dashboards[key].session_names)
        kept == IF q.search = "None" \/ trim_is_empty(q.search) THEN joined
                ELSE SelectSeq(joined, LAMBDA info : Retained(info, q.search))
    IN  sort_by(kept, q.sort, q.order)

\* ((total as f32) / (page_size as f32)).ceil() as u32: a division by zero gives
\* infinity (the cast saturates) or, for 0/0, NaN (the cast gives 0).
total_pages(total, page_size) ==
    IF page_size = 0 THEN (IF total = 0 THEN 0 ELSE U32Max)
    ELSE (total + page_size - 1) \div page_size

\* The pagination of list_dashboard_sessions (348-373) over the sorted list.
Paginate(list, q) ==
    LET total == Len(list)
        pages == total_pages(total, q.page_size)
        page == Min(Max(q.page, 1), Max(pages, 1))
        start_index == (page - 1) * q.page_size  \* below 2^32: page <= pages
    IN  [kind |-> "OK",
         sessions |-> IF start_index < total
                      THEN SubSeq(list, start_index + 1,
                                  Min(start_index + q.page_size, total))
                      ELSE <<>>,
         pagination |-> [page |-> page, page_size |-> q.page_size, total |-> total,
                         total_pages |-> pages, has_previous |-> page > 1,
                         has_next |-> page < pages]]

NotFound == [kind |-> "NOT_FOUND"]

\* now - last_accessed in u64: a stamp later than t wraps to more than a day.
Elapsed(t, stamp) == IF t >= stamp THEN t - stamp ELSE DayMs

\* The clock advances by d milliseconds.
Tick(d) ==
    /\ now' = now + d
    /\ UNCHANGED <<sessVars, histVars, cliVars, wsVars, proxyVars, dashVars, last_accessed,
                   hostVars>>

\* session.access(): the session notes activity.
SessionAccess(n) ==
    /\ n \in sessions
    /\ last_accessed' = [last_accessed EXCEPT ![n] = now]
    /\ UNCHANGED <<sessVars, histVars, cliVars, wsVars, proxyVars, dashVars, now, hostVars>>

\* register_dashboard: key is the request's dashboard_key, or the generated one.
RegisterDashboard(session_name, display_name, key) ==
    /\ dashboards' = [dashboards EXCEPT ![key] =
           [exists |-> TRUE,
            created_at |-> IF @.exists THEN @.created_at ELSE now,
            last_accessed |-> now,
            session_names |-> @.session_names \cup {session_name}]]
    /\ session_metadata' = [session_metadata EXCEPT ![session_name] =
           [registered |-> TRUE, display_name |-> display_name, dashboard_key |-> key]]
    /\ dash_resp' = [kind |-> "Registered", dashboard_key |-> key,
                     dashboard_url |-> <<"https://", "localhost", "/d/", key>>]
    /\ UNCHANGED <<sessVars, histVars, cliVars, wsVars, proxyVars, now, last_accessed,
                   hostVars,
                   cleanup_passes>>

\* list_dashboard_sessions: the dashboard is stamped, the list built and cut.
ListDashboardSessions(key, q, it) ==
    /\ it \in IterOrders
    /\ IF ~dashboards[key].exists
       THEN dash_resp' = NotFound /\ dashboards' = dashboards
       ELSE /\ dashboards' = [dashboards EXCEPT ![key].last_accessed = now]
            /\ dash_resp' = Paginate(FullList(key, q, it), q)
    /\ UNCHANGED <<sessVars, histVars, cliVars, wsVars, proxyVars, session_metadata, now,
                   last_accessed, hostVars,
                   cleanup_passes>>

\* check_dashboard_status
CheckDashboardStatus(key) ==
    /\ dash_resp' = IF dashboards[key].exists THEN [kind |-> "OK200"] ELSE NotFound
    /\ UNCHANGED <<sessVars, histVars, cliVars, wsVars, proxyVars, dashboards,
                   session_metadata, now, last_accessed, hostVars,
                   cleanup_passes>>

\* Faulty variant of the reaper's pass: age alone decides.
DashboardCleanup_age ==
    /\ dashboards' = [d \in DashKeys |->
           IF Elapsed(now, dashboards[d].last_accessed) < DayMs
           THEN dashboards[d] ELSE NoDashboard]
    /\ cleanup_passes' = cleanup_passes + 1
    /\ UNCHANGED <<sessVars, histVars, cliVars, wsVars, proxyVars, session_metadata,
                   dash_resp, now, last_accessed, hostVars>>

\* One pass of start_dashboard_cleanup: retain under the write lock.
DashboardCleanup ==
    /\ dashboards' = [d \in DashKeys |->
           IF \/ dashboards[d].session_names # {}
              \/ Elapsed(now, dashboards[d].last_accessed) < DayMs
           THEN dashboards[d] ELSE NoDashboard]
    /\ cleanup_passes' = cleanup_passes + 1
    /\ UNCHANGED <<sessVars, histVars, cliVars, wsVars, proxyVars, session_metadata,
                   dash_resp, now, last_accessed, hostVars>>

(***************************************************************************)
(* Listing: three sessions are opened 100 ms apart and registered to one   *)
(* dashboard; a frontend joins the first; the dashboard is listed.         *)
(***************************************************************************)
NoSearch == "None"

\* The queries the listing scenario sends.
SentQueries ==
    {[page |-> pg, page_size |-> ps, search |-> NoSearch, sort |-> "lastAccessed",
      order |-> "desc"] : pg \in {1, 2}, ps \in {0, 2}}
    \cup {[page |-> 1, page_size |-> 1, search |-> "N1", sort |-> "name", order |-> "asc"]}

\* The next name the scenario opens: n1, then n2, then n3.
NextName == CHOOSE n \in AllNames \cup {NoSession} :
                IF sessions = AllNames THEN n = NoSession
                ELSE n \in AllNames \ sessions
                     /\ \A m \in AllNames \ sessions : NameRank(n) <= NameRank(m)

NextDash ==
    \/ \E k \in FirstCli : CliConnect(k)
    \/ \E k \in FirstCli, id \in ReqIds, hash \in {"none", "h1"} :
           /\ NextName # NoSession
           /\ NameRank(NextName) = 1 \/ hash = "none"
           /\ now = 100 * NameRank(NextName)
           /\ CliOpenSession(k, id, "o", NextName, "z1", hash, TRUE)
    \/ now < MaxClock /\ Tick(100)
    \/ \E n \in AllNames :
           /\ n \in sessions /\ ~session_metadata[n].registered
           /\ RegisterDashboard(n, IF n = "n2" THEN "Alice" ELSE "user", "d1")
    \/ \E q \in SentQueries, it \in IterOrders :
           /\ now >= MaxClock
           /\ ListDashboardSessions("d1", q, it)
    \/ WsConnect("c1", "n1", TRUE)
    \/ WsAuthenticate("c1", GoodFrame, TRUE)
    \/ WsUsers("c1", TRUE)

SpecDash == Init /\ [][NextDash]_vars

\* The filters, sorts and page sizes the pagination law is checked for.
LawQueries ==
    [page : {1}, page_size : 0..MaxPageSize, search : {NoSearch, "N1", "ali"},
     sort : {"name", "lastAccessed", "userCount", "shellCount"}, order : {"asc", "desc"}]

\* The sessions arrays of pages 1..k of one query, concatenated.
RECURSIVE ConcatPages(_, _, _)
ConcatPages(list, q, k) ==
    IF k = 0 THEN <<>>
    ELSE ConcatPages(list, q, k - 1) \o Paginate(list, [q EXCEPT !.page = k]).sessions

\* Pages 1..totalPages cover the list. Beyond page MaxPageSize + 2 every page of
\* these lists has the same content as that page, so the sum stops there.
PagesCover(list, q) ==
    ConcatPages(list, q, Min(total_pages(Len(list), q.page_size), MaxPageSize + 2)) = list

\* The returned page is the requested one clamped to [1, max(totalPages, 1)], and
\* hasNext and hasPrevious are as the law says.
PageFlags(list, q) ==
    \A pg \in 0..(MaxPageSize + 2) :
        LET r == Paginate(list, [q EXCEPT !.page = pg]).pagination
            last == IF r.total_pages > 1 THEN r.total_pages ELSE 1
        IN  /\ r.page = (IF pg < 1 THEN 1 ELSE IF pg > last THEN last ELSE pg)
            /\ r.has_next = (r.page < r.total_pages)
            /\ r.has_previous = (r.page > 1)

\* C31 as stated: for any dashboard, any filter and sort and any pageSize, the
\* sessions arrays of pages 1..totalPages concatenated are the full filtered and
\* sorted list, each session once and in order; hasNext = (page < totalPages) and
\* hasPrevious = (page > 1) for the returned page, the requested page clamped to
\* [1, max(totalPages, 1)].
C31_AsStated ==
    \A key \in DashKeys, q \in LawQueries, it \in IterOrders :
        dashboards[key].exists =>
            /\ PagesCover(FullList(key, q, it), q)
            /\ PageFlags(FullList(key, q, it), q)

\* The same law for the page sizes from 1 on.
PaginationLaw ==
    \A key \in DashKeys, q \in LawQueries, it \in IterOrders :
        (dashboards[key].exists /\ q.page_size >= 1) =>
            /\ PagesCover(FullList(key, q, it), q)
            /\ PageFlags(FullList(key, q, it), q)

\* A listing of three sessions with pageSize 0 was answered: no session on the
\* page, and as many pages as a u32 can count.
C31_Witness ==
    /\ dash_resp.kind = "OK"
    /\ dash_resp.pagination.page_size = 0
    /\ dash_resp.pagination.total = 3
    /\ dash_resp.pagination.total_pages = U32Max
    /\ dash_resp.sessions = <<>>

\* The query of the sort-and-paginate scenario, for page pg.
NewestFirst(pg) ==
    [page |-> pg, page_size |-> 2, search |-> NoSearch, sort |-> "lastAccessed",
     order |-> "desc"]

\* Three sessions, all registered to d1, last accessed at 100, 200 and 300.
ThreeRegistered ==
    /\ sessions = AllNames
    /\ dashboards["d1"].session_names = AllNames
    /\ last_accessed["n1"] = 100 /\ last_accessed["n2"] = 200 /\ last_accessed["n3"] = 300

\* The names on the page of a listing.
PageNames(resp) ==
    IF resp.kind = "OK" THEN {resp.sessions[i].name : i \in 1..Len(resp.sessions)} ELSE {}

\* C32 as stated: with sort=lastAccessed, order=desc and pageSize=2, three sessions
\* last accessed at 100, 200 and 300 are listed most recent first: page 1 holds the
\* sessions accessed at 300 and 200, page 2 the one accessed at 100, and totalPages
\* is 2.
C32_AsStated ==
    [][\A pg \in {1, 2}, it \in IterOrders :
          \/ ~(ThreeRegistered /\ ListDashboardSessions("d1", NewestFirst(pg), it))
          \/ /\ dash_resp'.kind = "OK"
             /\ dash_resp'.pagination.total_pages = 2
             /\ PageNames(dash_resp') = IF pg = 1 THEN {"n3", "n2"} ELSE {"n1"}]_vars

\* The listing of page 1 was answered with the sessions accessed at 100 and 200,
\* the one accessed longest ago first.
C32_Witness ==
    /\ ThreeRegistered
    /\ dash_resp.kind = "OK"
    /\ dash_resp.pagination.page = 1 /\ dash_resp.pagination.page_size = 2
    /\ dash_resp.pagination.total_pages = 2
    /\ Len(dash_resp.sessions) = 2
    /\ dash_resp.sessions[1].name = "n1" /\ dash_resp.sessions[2].name = "n2"

(***************************************************************************)
(* Reaper: dashboards are registered, listed and asked for their status    *)
(* while half days pass and the reaper makes its passes.                   *)
(***************************************************************************)
MaxPasses == 2
MaxDays == 2

PlainQuery == [page |-> 1, page_size |-> 2, search |-> NoSearch, sort |-> "name",
               order |-> "asc"]

NextReaper ==
    \/ \E k \in FirstCli : CliConnect(k)
    \/ \E k \in FirstCli, id \in ReqIds :
           sessions = {} /\ CliOpenSession(k, id, "o", "n1", "z1", "none", TRUE)
    \/ now < MaxDays * DayMs /\ Tick(DayMs \div 2)
    \/ SessionAccess("n1")
    \/ \E n \in Names, key \in DashKeys :
           ~session_metadata[n].registered /\ RegisterDashboard(n, "user", key)
    \/ \E key \in DashKeys, it \in IterOrders : ListDashboardSessions(key, PlainQuery, it)
    \/ \E key \in DashKeys : CheckDashboardStatus(key)
    \/ cleanup_passes < MaxPasses /\ DashboardCleanup

SpecReaper == Init /\ [][NextReaper]_vars

\* The dashboards a pass of the reaper is to remove.
Reapable(d) ==
    /\ dashboards[d].exists
    /\ dashboards[d].session_names = {}
    /\ now - dashboards[d].last_accessed > DayMs

MaxRequests == 3
MaxInFlight == 1

\* next_id: the counter is incremented and formatted as "req_N".
RequestIds == <<"req_1", "req_2", "req_3", "req_4", "req_5">>
next_id(counter) == RequestIds[counter + 1]

\* The CliMessage variants that send_request carries.
CliMessages == {"OpenSession", "CloseSession", "StartChannel"}

\* The CliResponseMessage variants cli_response_to_server_update converts; every
\* other variant makes it return an error.
StreamMessages == {"TerminalInput", "CreateShell", "CloseShell", "Sync", "Resize",
                   "Ping", "Error"}

\* A text frame holding the JSON of a CliRequest or of a CliResponse.
TextFrame(id, message) == [kind |-> "Text", parses |-> TRUE, id |-> id, message |-> message]
\* A text frame that is not the JSON of a CliResponse.
InvalidText == [kind |-> "Text", parses |-> FALSE, id |-> "none", message |-> "none"]
\* A binary frame: the relay's send_response encodes a protobuf CliResponse in one.
BinaryFrame(id, message) == [kind |-> "Binary", parses |-> TRUE, id |-> id, message |-> message]
CloseFrame == [kind |-> "Close", parses |-> FALSE, id |-> "none", message |-> "none"]

Returned(result, response) == [call EXCEPT !.pc = "returned", !.result = result,
                                           !.response = response]

\* send_request up to the point where it waits on the oneshot receiver: the id is
\* drawn, the sender is inserted into the map, the request is written as a text
\* frame.  When the write fails the ? operator returns the error at once.
send_request(message, sent) ==
    /\ call.pc # "waiting"
    /\ next_request_id < MaxRequests
    /\ LET id == next_id(next_request_id) IN
       /\ next_request_id' = next_request_id + 1
       /\ pending_requests' = pending_requests \cup {id}
       /\ IF sent
            THEN /\ tr_out' = Append(tr_out, TextFrame(id, message))
                 /\ call' = [pc |-> "waiting", id |-> id, message |-> message,
                             result |-> "none", response |-> "none"]
            ELSE /\ tr_out' = tr_out
                 /\ call' = [pc |-> "returned", id |-> id, message |-> message,
                             result |-> "Failed to send WebSocket message",
                             response |-> "none"]
    /\ UNCHANGED <<serverVars, notTransport, tr_in, server_rx, reader>>

\* The 30 seconds pass before the receiver yields: the id is removed from the map
\* and the call returns "Request timed out".
RequestTimeout ==
    /\ call.pc = "waiting"
    /\ pending_requests' = pending_requests \ {call.id}
    /\ call' = Returned("Request timed out", "none")
    /\ UNCHANGED <<serverVars, notTransport, next_request_id, tr_out, tr_in, server_rx, reader>>

\* handle_text_message: a CliResponse with id "server_update" goes to the stream
\* when it converts; any other id is looked up in the map, and the sender found
\* there is removed and given the message.  Text that does not parse is dropped.
handle_text_message(msg) ==
    IF ~msg.parses
      THEN UNCHANGED <<pending_requests, call, server_rx>>
      ELSE IF msg.id = "server_update"
        THEN /\ server_rx' = IF msg.message \in StreamMessages
                               THEN Append(server_rx, msg.message)
                               ELSE server_rx
             /\ UNCHANGED <<pending_requests, call>>
        ELSE /\ pending_requests' = pending_requests \ {msg.id}
             /\ call' = IF msg.id \in pending_requests /\ call.pc = "waiting"
                           /\ call.id = msg.id
                          THEN Returned("Ok", msg.message)
                          ELSE call
             /\ server_rx' = server_rx

\* One iteration of the reader task's loop: text is handled, a close frame ends
\* the task, every other kind of frame is ignored.
ReaderNext ==
    /\ reader = "running"
    /\ tr_in # <<>>
    /\ tr_in' = Tail(tr_in)
    /\ LET msg == Head(tr_in) IN
         IF msg.kind = "Text"
           THEN handle_text_message(msg) /\ reader' = reader
           ELSE /\ reader' = IF msg.kind = "Close" THEN "exited" ELSE reader
                /\ UNCHANGED <<pending_requests, call, server_rx>>
    /\ UNCHANGED <<serverVars, notTransport, next_request_id, tr_out>>

\* The relay's recv_request meets a text frame: it logs "ignoring text message from
\* CLI client" and reads on; the handler does not see the frame and sends nothing.
CliRecvText(k) ==
    /\ cli_pc[k] = "open"
    /\ tr_out # <<>>
    /\ Head(tr_out).kind = "Text"
    /\ tr_out' = Tail(tr_out)
    /\ UNCHANGED <<serverVars, notTransport, pending_requests, next_request_id, call, tr_in,
                   server_rx, reader>>

\* The host agent is on connection k1 of the relay; a second agent that frames its
\* requests as the relay expects is on k2.
NextAgent ==
    \/ CliConnect("k1")
    \/ CliConnect("k2")
    \/ \E id \in ReqIds, n \in Names : CliOpenSession("k2", id, "o", n, "z1", "none", TRUE)
    \/ /\ cli_pc["k1"] = "open"
       /\ \E message \in CliMessages, sent \in BOOLEAN : send_request(message, sent)
    \/ CliRecvText("k1")
    \/ RequestTimeout

\* The relay's read loop keeps reading and the transport's timer fires.
SpecAgent ==
    /\ Init
    /\ [][NextAgent]_vars
    /\ WF_vars(CliRecvText("k1"))
    /\ WF_vars(RequestTimeout)

\* C34: every request the transport has written is eventually answered: the call
\* that sent it returns the response carrying its id; and what the reader routes
\* to the stream never takes a pending request away.
C34_AsStated ==
    /\ [](call.pc = "waiting" => <>(call.pc = "returned" /\ call.result = "Ok"))
    /\ [][server_rx' # server_rx => pending_requests' = pending_requests]_vars

\* A request went out as a text frame, the relay read the frame and sent nothing,
\* and the call returned by timeout.
C34_Witness ==
    /\ call.pc = "returned"
    /\ call.result = "Request timed out"
    /\ tr_out = <<>>
    /\ cli_pc["k1"] = "open"
    /\ cli_sent["k1"] = <<>>


\* What an endpoint can put on the socket: responses in JSON text for any request
\* id or for the stream, text that is no CliResponse, binary frames, a close.
PeerFrames ==
    {TextFrame(next_id(i), "OpenSession") : i \in 0..(MaxRequests - 1)}
      \cup {TextFrame("server_update", m) : m \in {"OpenSession", "Sync"}}
      \cup {InvalidText, BinaryFrame("req_1", "OpenSession"), CloseFrame}

\* The endpoint writes a frame to the transport.
PeerSend(frame) ==
    /\ Len(tr_in) < MaxInFlight
    /\ Len(server_rx) < MaxInFlight
    /\ tr_in' = Append(tr_in, frame)
    /\ UNCHANGED <<serverVars, notTransport, pending_requests, next_request_id, call, tr_out,
                   server_rx, reader>>

\* The endpoint reads a frame the transport wrote.
PeerRecv ==
    /\ tr_out # <<>>
    /\ tr_out' = Tail(tr_out)
    /\ UNCHANGED <<serverVars, notTransport, pending_requests, next_request_id, call, tr_in,
                   server_rx, reader>>

\* The transport alone, against an endpoint that may send anything.
NextTransport ==
    \/ \E message \in CliMessages, sent \in BOOLEAN : send_request(message, sent)
    \/ RequestTimeout
    \/ ReaderNext
    \/ PeerRecv
    \/ \E frame \in PeerFrames : PeerSend(frame)

SpecTransport == Init /\ [][NextTransport]_vars

\* A call that returned with a response or by timeout has left no entry behind.
AnsweredLeavesNoEntry ==
    (call.pc = "returned" /\ call.result \in {"Ok", "Request timed out"})
        => call.id \notin pending_requests

\* C39: when send_request has returned, the map does not hold its id, and every
\* id in the map is the id of the call that is waiting.
C39_AsStated ==
    /\ call.pc = "returned" => call.id \notin pending_requests
    /\ \A id \in pending_requests : call.pc = "waiting" /\ call.id = id

\* send_request returned because the write failed, and its id is still in the map.
C39_Witness ==
    /\ call.pc = "returned"
    /\ call.result = "Failed to send WebSocket message"
    /\ call.id \in pending_requests


\* ---------------------------------------------------------------------------
\* connect_with_fallback (sshx/src/connection.rs) and the start of a host agent run.

\* Display of an anyhow error: the outermost context.
to_string(error) == IF error = <<>> THEN "" ELSE Head(error)
\* Err(e).context(c)
context(error, c) == <<c>> \o error

\* The relay's Open call: the session is created and inserted into the session map
\* under its generated name.
GrpcOpen(n, zeros, hash) ==
    /\ n \notin sessions
    /\ ~terminated[n]
    /\ sessions' = sessions \cup {n}
    /\ metadata' = [metadata EXCEPT
           ![n] = [encrypted_zeros |-> zeros, write_password_hash |-> hash]]
    /\ last_accessed' = [last_accessed EXCEPT ![n] = now]

ServerIdle == UNCHANGED <<sessions, metadata, last_accessed>>

GrpcFailed(error) == conn' = [conn EXCEPT !.pc = "websocket", !.grpc = "failed",
                                          !.error = error]

connUnchanged == UNCHANGED <<shells, users, next_sid, next_uid, terminated, update_queue,
                             histVars, wsVars, proxyVars, dashVars, now, notConn>>

\* try_grpc_connection, the first connect: the test transport.
GrpcTestConnect(ok) ==
    /\ conn.pc = "start"
    /\ IF ok THEN conn' = [conn EXCEPT !.pc = "test_open"]
             ELSE GrpcFailed(<<"gRPC connection failed">>)
    /\ ServerIdle
    /\ UNCHANGED cliVars
    /\ connUnchanged

\* try_grpc_connection, the connectivity test: an Open call with the name
\* "connectivity-test" and 32 zero bytes.  The relay answers with the session it
\* made, or with an error, or the call runs into the timeout (the relay may have
\* made the session by then or not).
GrpcTestOpen(outcome, n) ==
    /\ conn.pc = "test_open"
    /\ CASE outcome = "ok" ->
              /\ GrpcOpen(n, "z0", "none")
              /\ conn' = [conn EXCEPT !.pc = "reconnect"]
         [] outcome = "late" ->
              /\ GrpcOpen(n, "z0", "none")
              /\ GrpcFailed(<<"gRPC connectivity test timed out">>)
         [] outcome = "timeout" ->
              /\ ServerIdle
              /\ GrpcFailed(<<"gRPC connectivity test timed out">>)
         [] OTHER ->
              /\ ServerIdle
              /\ GrpcFailed(<<"gRPC connectivity test failed">>)
    /\ UNCHANGED cliVars
    /\ connUnchanged

\* Faulty variant: a failure of the second connect is returned without trying
\* WebSocket.
GrpcReconnect_return(ok) ==
    /\ conn.pc = "reconnect"
    /\ IF ok THEN conn' = [conn EXCEPT !.pc = "returned", !.grpc = "ok", !.method = "Grpc"]
             ELSE conn' = [conn EXCEPT !.pc = "returned", !.grpc = "failed",
                                       !.error = <<"gRPC connection failed">>]
    /\ ServerIdle
    /\ UNCHANGED cliVars
    /\ connUnchanged

\* try_grpc_connection, the second connect: the transport that is returned.
GrpcReconnect(ok) ==
    /\ conn.pc = "reconnect"
    /\ IF ok THEN conn' = [conn EXCEPT !.pc = "returned", !.grpc = "ok", !.method = "Grpc"]
             ELSE GrpcFailed(<<"gRPC connection failed">>)
    /\ ServerIdle
    /\ UNCHANGED cliVars
    /\ connUnchanged

\* try_websocket_connection: when the connect succeeds the relay runs its CLI
\* handler on the new socket; when it fails the error is wrapped and returned.
TryWebsocket(ok) ==
    /\ conn.pc = "websocket"
    /\ IF ok
         THEN /\ cli_pc["k1"] = "idle"
              /\ cli_pc' = [cli_pc EXCEPT !["k1"] = "open"]
              /\ conn' = [conn EXCEPT !.pc = "returned", !.ws = "ok",
                                      !.method = "WebSocketFallback", !.error = <<>>]
         ELSE /\ cli_pc' = cli_pc
              /\ conn' = [conn EXCEPT !.pc = "returned", !.ws = "failed",
                            !.error = context(<<"WebSocket connection failed">>,
                                      "Both gRPC and WebSocket connections failed")]
    /\ ServerIdle
    /\ UNCHANGED <<active_session, cli_resp, cli_sent, cli_rx, stream_task, opening>>
    /\ connUnchanged

\* The run goes on: the controller opens its session over the gRPC transport.
ControllerOpen(n) ==
    /\ conn.pc = "returned"
    /\ conn.method = "Grpc"
    /\ GrpcOpen(n, "z1", "none")
    /\ conn' = [conn EXCEPT !.pc = "running"]
    /\ UNCHANGED cliVars
    /\ connUnchanged

ConnectOutcomes == {"ok", "late", "timeout", "error"}

\* One step of connect_with_fallback.
ConnectStep ==
    \/ \E ok \in BOOLEAN : GrpcTestConnect(ok)
    \/ \E outcome \in ConnectOutcomes, n \in AllNames : GrpcTestOpen(outcome, n)
    \/ \E ok \in BOOLEAN : GrpcReconnect(ok)
    \/ \E ok \in BOOLEAN : TryWebsocket(ok)

\* A host agent run, next to a second agent on connection k2 and the clock.
NextConnect ==
    \/ \E ok \in BOOLEAN : GrpcTestConnect(ok)
    \/ \E outcome \in ConnectOutcomes, n \in AllNames : GrpcTestOpen(outcome, n)
    \/ \E ok \in BOOLEAN : GrpcReconnect(ok)
    \/ \E ok \in BOOLEAN : TryWebsocket(ok)
    \/ \E n \in AllNames : ControllerOpen(n)
    \/ CliConnect("k2")
    \/ \E id \in ReqIds, n \in Names : CliOpenSession("k2", id, "o", n, "z1", "none", TRUE)

SpecConnect == Init /\ [][NextConnect]_vars

\* C35: WebSocket is attempted exactly when the gRPC attempt failed; the method is
\* Grpc exactly when gRPC succeeded, WebSocketFallback exactly when gRPC failed and
\* WebSocket succeeded; when both failed the error reads "Both gRPC and WebSocket
\* connections failed".
C35_Fallback ==
    /\ conn.ws # "untried" => conn.grpc = "failed"
    /\ conn.pc \in {"returned", "running"} =>
         /\ conn.grpc # "untried"
         /\ conn.grpc = "failed" => conn.ws # "untried"
         /\ conn.method = "Grpc" <=> conn.grpc = "ok"
         /\ conn.method = "WebSocketFallback" <=> (conn.grpc = "failed" /\ conn.ws = "ok")
         /\ (conn.grpc = "failed" /\ conn.ws = "failed") <=>
                to_string(conn.error) = "Both gRPC and WebSocket connections failed"
         /\ conn.method = "none" <=> conn.error # <<>>

\* The gRPC attempt failed at its second connect, after the connectivity test had
\* passed, and the WebSocket attempt failed too.
C35_Witness ==
    /\ conn.pc = "returned"
    /\ conn.grpc = "failed"
    /\ conn.ws = "failed"
    /\ sessions # {}
    /\ to_string(conn.error) = "Both gRPC and WebSocket connections failed"

\* C40: no step of connect_with_fallback changes the relay's session map.
C40_AsStated == [][ConnectStep => sessions' = sessions]_vars

\* connect_with_fallback returned the gRPC transport and the relay holds the
\* session the connectivity test opened, before the controller has opened any.
C40_Witness ==
    /\ conn.pc = "returned"
    /\ conn.method = "Grpc"
    /\ cli_pc["k2"] = "idle"
    /\ sessions # {}


\* ---------------------------------------------------------------------------
\* The terminal client (sshx-term): SshxClient on frontend connection c1 of the
\* relay, and the session loop that reads stdin.

MaxStdin == 4
MaxRead == 2

AuthFailed == "Authentication failed - invalid encryption key or write password"

\* SshxClient::connect up to the Authenticate frame: the socket is connected (the
\* relay's handler runs on it) and authenticate sends the witness of the key and,
\* with a write password, its witness.
ClientConnect(witness, write) ==
    /\ client.pc = "start"
    /\ ws_pc["c1"] # "idle"
    /\ client' = [client EXCEPT !.pc = "sent_auth",
                    !.auth = [kind |-> "Authenticate", witness |-> witness, write |-> write]]
    /\ UNCHANGED <<serverVars, transportVars, conn, termVars>>

\* authenticate from receive_message on: Hello sets user_id and can_write and
\* SetName is sent; InvalidAuth and every other frame are errors.  connect returns
\* the client when authenticate returned Ok.
ClientAuthReply(sent) ==
    /\ client.pc = "sent_auth"
    /\ client.read < Len(ws_sent["c1"])
    /\ LET msg == ws_sent["c1"][client.read + 1]
           got == [client EXCEPT !.read = @ + 1]
       IN  client' =
             IF msg.kind = "Hello"
               THEN IF sent
                      THEN [got EXCEPT !.pc = "connected", !.user_id = msg.uid,
                                       !.can_write = TRUE,
                                       !.sent = Append(@, [kind |-> "SetName"])]
                      ELSE [got EXCEPT !.pc = "failed", !.user_id = msg.uid,
                                       !.can_write = TRUE,
                                       !.error = "Failed to send WebSocket message"]
             ELSE IF msg.kind = "InvalidAuth"
               THEN [got EXCEPT !.pc = "failed", !.error = AuthFailed]
             ELSE IF msg.kind = "Close4404"
               THEN [got EXCEPT !.pc = "failed", !.error = "WebSocket connection closed"]
             ELSE [got EXCEPT !.pc = "failed", !.error = "Unexpected message during auth"]
    /\ UNCHANGED <<serverVars, transportVars, conn, termVars>>

\* create_shell up to its wait for the Shells frame that shows the new shell.
ClientCreateShell(x, y) ==
    /\ client.pc = "connected"
    /\ client' = IF ~client.can_write
                   THEN [client EXCEPT !.error = "Cannot create shell in read-only mode"]
                   ELSE [client EXCEPT !.pc = "create_wait",
                                       !.sent = Append(@, [kind |-> "Create"])]
    /\ UNCHANGED <<serverVars, transportVars, conn, termVars>>

\* send_input: refused locally without can_write; else one Data frame at the
\* chunk counter, which then advances by the length of the data.
send_input(data) ==
    IF ~client.can_write
      THEN [client EXCEPT !.error = "Cannot send input in read-only mode"]
      ELSE [client EXCEPT !.sent = Append(@, [kind |-> "Data"]),
                          !.chunk_counter = @ + Len(data)]

\* should_exit_on_input: the bytes are scanned from the state the static holds;
\* the scan stops at the byte that completes the escape.
RECURSIVE should_exit_on_input(_, _)
should_exit_on_input(state, data) ==
    IF data = <<>> THEN [exit |-> FALSE, state |-> state]
    ELSE IF state = "Normal"
      THEN should_exit_on_input(IF Head(data) = 29 THEN "GotCtrlRightBracket" ELSE "Normal",
                                Tail(data))
    ELSE IF Head(data) \in {113, 81}
      THEN [exit |-> TRUE, state |-> "Normal"]
    ELSE should_exit_on_input("Normal", Tail(data))

\* Ctrl+D, Ctrl+], 'Q', 'a', 'q'.
StdinBytes == {4, 29, 81, 97, 113}

RECURSIVE Reads(_)
Reads(len) == IF len = 0 THEN {<<>>}
              ELSE Reads(len - 1) \cup {Append(d, b) : d \in Reads(len - 1), b \in StdinBytes}

\* The stdin arm of the session loop: end of input, a lone Ctrl+D and the escape
\* leave the loop; any other read is sent to the shell, and a refused or failed
\* send leaves the loop too.
StdinRead(data, sent) ==
    /\ session_loop = "running"
    /\ client.pc = "connected"
    /\ Len(stdin) + Len(data) <= MaxStdin
    /\ stdin' = stdin \o data
    /\ IF data = <<>>
         THEN session_loop' = "eof" /\ UNCHANGED <<ESCAPE_STATE, client>>
       ELSE IF data = <<4>>
         THEN session_loop' = "ctrl_d" /\ UNCHANGED <<ESCAPE_STATE, client>>
       ELSE LET r == should_exit_on_input(ESCAPE_STATE, data) IN
              /\ ESCAPE_STATE' = r.state
              /\ IF r.exit
                   THEN session_loop' = "escape" /\ client' = client
                 ELSE IF ~sent
                   THEN session_loop' = "send_failed" /\ client' = client
                 ELSE /\ client' = send_input(data)
                      /\ session_loop' = IF client.can_write THEN "running"
                                                             ELSE "send_failed"
    /\ UNCHANGED <<serverVars, transportVars, conn>>

\* The bytes hold Ctrl+] directly followed by 'q' or 'Q'.
ContainsEscape(bytes) ==
    \E i \in 1..(Len(bytes) - 1) : bytes[i] = 29 /\ bytes[i + 1] \in {113, 81}

\* A host agent on k1 opens session n1, with or without a write password; the
\* terminal client joins it on c1.
NextClient ==
    \/ CliConnect("k1")
    \/ \E id \in ReqIds, hash \in {"none", "h1"} :
           /\ sessions = {}
           /\ CliOpenSession("k1", id, "o", "n1", "z1", hash, TRUE)
    \/ WsConnect("c1", "n1", TRUE)
    \/ \E witness \in {"z1", "z2"}, write \in {"none", "h1", "h2"} :
           ClientConnect(witness, write)
    \/ /\ client.pc # "start"
       /\ \E ok \in BOOLEAN : WsAuthenticate("c1", client.auth, ok)
    \/ WsUsers("c1", TRUE)
    \/ \E sent \in BOOLEAN : ClientAuthReply(sent)
    \/ ClientCreateShell(0, 0)
    \/ \E data \in Reads(1) \ {<<>>}, sent \in BOOLEAN : StdinRead(data, sent)

SpecClient == Init /\ [][NextClient]_vars

\* The relay answered the client's Authenticate with InvalidAuth and closed.
AuthRejected ==
    /\ ws_pc["c1"] = "closed"
    /\ \E i \in 1..Len(ws_sent["c1"]) : ws_sent["c1"][i].kind = "InvalidAuth"

\* C37: when the relay has rejected the Authenticate, connect does not return a
\* client, and the error it returns is the authentication failure.
C37_AsStated ==
    AuthRejected =>
        /\ client.pc \notin {"connected", "create_wait"}
        /\ client.pc = "failed" => client.error = AuthFailed

\* The relay rejected the Authenticate and connect has returned a client.
C37_Witness ==
    /\ AuthRejected
    /\ client.pc = "connected"
    /\ client.error = "none"

\* The relay let the client's user join.
ClientJoined ==
    /\ ws_pc["c1"] \in {"authed", "running"}
    /\ users["n1"][ws_uid["c1"]].present

\* C38: a connected client's can_write is the can_write of its user at the relay,
\* and a client whose user is a reader has sent no Create and no Data frame.
C38_AsStated ==
    (ClientJoined /\ client.pc \in {"connected", "create_wait"}) =>
        /\ client.can_write = users["n1"][ws_uid["c1"]].can_write
        /\ ~users["n1"][ws_uid["c1"]].can_write =>
              \A i \in 1..Len(client.sent) : client.sent[i].kind \notin {"Create", "Data"}

\* The relay made the user a reader and the client has sent a Create frame.
C38_Witness ==
    /\ ClientJoined
    /\ ~users["n1"][ws_uid["c1"]].can_write
    /\ client.auth.write = "none"
    /\ \E i \in 1..Len(client.sent) : client.sent[i].kind = "Create"

\* The session loop with a connected client that may write: the session has no
\* write password.
NextEscape ==
    \/ CliConnect("k1")
    \/ \E id \in ReqIds :
           /\ sessions = {}
           /\ CliOpenSession("k1", id, "o", "n1", "z1", "none", TRUE)
    \/ WsConnect("c1", "n1", TRUE)
    \/ ClientConnect("z1", "none")
    \/ /\ client.pc # "start"
       /\ WsAuthenticate("c1", client.auth, TRUE)
    \/ ClientAuthReply(TRUE)
    \/ \E data \in Reads(MaxRead), sent \in BOOLEAN : StdinRead(data, sent)

SpecEscape == Init /\ [][NextEscape]_vars

\* C36: the loop has been left by the escape exactly when the bytes read so far
\* hold Ctrl+] directly followed by 'q' or 'Q'.
C36_AsStated ==
    session_loop \in {"running", "escape"} =>
        (session_loop = "escape" <=> ContainsEscape(stdin))

\* Ctrl+], Ctrl+], 'q' have been read and the loop is still running.
C36_Witness ==
    /\ session_loop = "running"
    /\ stdin = <<29, 29, 113>>
    /\ ESCAPE_STATE = "Normal"

\* A lone Ctrl+] followed by 'q' or 'Q' leaves the loop, in one read or in two.
EscapeAcrossReads ==
    (session_loop = "running" /\ Len(stdin) >= 2 /\ stdin[Len(stdin) - 1] = 29
        /\ (Len(stdin) = 2 \/ stdin[Len(stdin) - 2] # 29))
      => stdin[Len(stdin)] \notin {113, 81}


Spec == SpecIngest
====
